---------------------------- MODULE Spec2Model ----------------------------
(***************************************************************************)
(* Vortex: the Session Manager (src/core/session.rs), the VM Lifecycle     *)
(* Manager (vortex-core/src/vm.rs), the metrics event handler              *)
(* (vortex-core/src/metrics.rs) and the daemon (src/core/daemon.rs).       *)
(*                                                                         *)
(* Four specifications share the module:                                   *)
(*   SpecSession  session operations run by concurrent connection tasks    *)
(*   SpecVm       lifecycle operations and the event fan-out               *)
(*   SpecMetrics  MetricsCollector::handle and its two RwLocks             *)
(*   SpecDaemon   the accept loop, the connections and Shutdown            *)
(* Each one moves its own variables and leaves the others unchanged.       *)
(***************************************************************************)
EXTENDS Integers, Sequences, FiniteSets, TLC

VARIABLES
    \* ---- Session Manager ------------------------------------------------
    phase,          \* "boot" before SessionManager::new, then "up" or "failed"
    sessions,       \* SessionManager.sessions: HashMap session id -> VmSession
    file,           \* content of sessions.json (a session map)
    fileState,      \* "missing" | "malformed" | "ok"
    tasks,          \* one record per connection task: where it is in its command
    lastReturn,     \* the most recent return of a session operation
    now,            \* Utc::now(), in minutes
    nextSess,       \* next fresh session id (Uuid::new_v4)
    saveFailures,   \* how many writes of the sessions file have failed
    lastSaveOk,     \* whether the most recent save_sessions succeeded
    commands,       \* how many session commands have been started
    \* ---- VM Lifecycle Manager and backend -------------------------------
    instances,      \* VmManager.instances: HashMap vm id -> VmState
    inventory,      \* the VMs the backend lists (krunvm list)
    backendAvail,   \* BackendProvider.preferred is registered
    nextVm,         \* next fresh vm id (generate_vm_id)
    vmTasks,        \* one record per caller of the VmManager: where it is in its call
    event_handlers, \* VmManager.event_handlers: the handlers, in registration order
    delivered,      \* per handler, the events it was handed (numbers into emitted)
    emitted,        \* the events given to emit_event, in the order of the calls
    vmReturn,       \* the most recent return of create, stop or cleanup
    vmOps,          \* how many VmManager calls have been started
    \* ---- MetricsCollector ------------------------------------------------
    vm_metrics,     \* MetricsCollector.vm_metrics: the vm ids that have metrics
    system_metrics, \* MetricsCollector.system_metrics.total_vms
    locks,          \* the two RwLocks: who holds each for writing, who for reading
    mTasks,         \* one record per task inside handle or record_vm_metrics
    mCalls,         \* how many calls of the collector have been started
    \* ---- Daemon ----------------------------------------------------------
    running,        \* VortexDaemon.running
    acceptLoop,     \* where VortexDaemon::start is
    socketFile,     \* the socket file exists
    conns,          \* one record per client connection
    \* ---- Daemon processes and the auto-spawn client ----------------------
    daemons,        \* one record per daemon process: where the process is
    sockPath,       \* ~/.vortex/daemon.sock: 0, or the process whose listener it names
    client,         \* DaemonClient::start_daemon_if_needed: where the call is
    \* ---- Dev templates and workspaces ------------------------------------
    templates,      \* DevEnvironmentManager.templates: name -> DevTemplate
    tplReturn,      \* the most recent return of a template or workspace operation
    tplOps,         \* how many such operations have been called
    \* ---- Image names -----------------------------------------------------
    image,          \* the image string of a VM spec
    image_name,     \* what normalize_image_name returned for it, <<>> before the call
    \* ---- Workspace Manager ----------------------------------------------
    wsDir,          \* workspace id -> the directory <workspaces_dir>/<id> exists
    wsFile,         \* workspace id -> content of <id>/.vortex.json
    wsCreated,      \* workspace id -> what create_workspace was called with, until deleted
    wsTasks,        \* one record per caller of the WorkspaceManager
    wsReturn,       \* the most recent return of a workspace operation
    wsNow,          \* chrono::Utc::now()
    nextWs,         \* next fresh workspace id (Uuid::new_v4)
    wsOps           \* how many workspace operations have been called

sessVars == <<phase, sessions, file, fileState, tasks, lastReturn, now,
              nextSess, saveFailures, lastSaveOk, commands>>
vmVars == <<instances, inventory, backendAvail, nextVm>>
apiVars == <<vmTasks, event_handlers, delivered, emitted, vmReturn, vmOps>>
metVars == <<vm_metrics, system_metrics, locks, mTasks, mCalls>>
dVars == <<running, acceptLoop, socketFile, conns>>
launchVars == <<daemons, sockPath, client>>
tplVars == <<templates, tplReturn, tplOps>>
imgVars == <<image, image_name>>
wsVars == <<wsDir, wsFile, wsCreated, wsTasks, wsReturn, wsNow, nextWs, wsOps>>
extVars == <<launchVars, tplVars, imgVars, wsVars>>
vars == <<sessVars, vmVars, apiVars, metVars, dVars, extVars>>

\* what a step of one component leaves alone
SessionOnly == UNCHANGED <<apiVars, metVars, dVars, extVars>>
VmApiOnly == UNCHANGED <<sessVars, metVars, dVars, extVars>>
MetricsOnly == UNCHANGED <<sessVars, vmVars, apiVars, dVars, extVars>>
DaemonOnly == UNCHANGED <<sessVars, vmVars, apiVars, metVars, extVars>>

--------------------------------------------------------------------------
(* Bounds *)

\* connection tasks that run session commands concurrently
NumTasks == 2
\* sessions created by create_session in one run
MaxNewSessions == 1
\* VMs created by VmManager::create in one run
MaxNewVms == 2
\* clock ticks
MaxTicks == 1
\* failed writes of the sessions file
MaxSaveFailures == 1
\* session commands started in one run
MaxCommands == 2
\* concurrent callers of the VmManager
NumVmTasks == 2
\* VmManager calls (create, stop, cleanup) started in one run
MaxVmOps == 2
\* event handlers registered in one run
MaxHandlers == 2
\* tasks that call the MetricsCollector concurrently
NumMetricTasks == 2
\* calls of the MetricsCollector started in one run
MaxMetricCalls == 3
\* client connections in one run
MaxConns == 2
\* commands a client sends over one connection
MaxRequests == 2
\* daemon processes in one run
NumDaemons == 2
\* characters of a startup command
MaxCommandLen == 1
\* startup commands of a custom template, custom commands of a workspace
MaxTemplateCommands == 2
\* template and workspace operations called in one run
MaxTplOps == 2
\* pieces of an image string
MaxImageLen == 4
\* concurrent callers of the WorkspaceManager
NumWsTasks == 2
\* workspaces created in one run
MaxWorkspaces == 2
\* workspace operations called in one run
MaxWsOps == 3
\* readings of the clock by the WorkspaceManager
MaxWsNow == 3

--------------------------------------------------------------------------
(* Data *)

\* Option::None of last_attached
Null == -1

Tasks == 1..NumTasks
\* Session 1 may come from the sessions file of an earlier run; the others are new.
SessIds == 1..(1 + MaxNewSessions)
\* VM 1 may be left from an earlier run; the others are new.
VmIds == 1..(1 + MaxNewVms)

\* One clock tick: 24 h 30 min.
TickMinutes == 24 * 60 + 30

SessionState == {"Creating", "Running", "Detached", "Attached", "Paused",
                 "Stopped", "Error"}

\* VmSpec, reduced to the fields validate_spec reads.  max_memory = Null is None.
GoodSpec == [memory |-> 512, cpus |-> 1, max_memory |-> Null]
ZeroMemSpec == [memory |-> 0, cpus |-> 1, max_memory |-> Null]
SessionSpecs == {GoodSpec, ZeroMemSpec}

\* vm_id = format!("vortex-{}", session_id): the placeholder of session s, never the
\* id of a created VM.
PlaceholderVm(s) == 0 - s

Put(m, k, v) == [x \in (DOMAIN m) \cup {k} |-> IF x = k THEN v ELSE m[x]]
Remove(m, k) == [x \in (DOMAIN m) \ {k} |-> m[x]]
EmptyMap == [x \in {} |-> 0]


\* A VmSession of the map (the key is its id); name, created_at and metadata are
\* never read by the operations and are left out.  message is the text carried by
\* SessionState::Error, "none" in every other state.
VmSession(st, vm, la, pers, spec) ==
    [state |-> st, vm_id |-> vm, last_attached |-> la, persistent |-> pers,
     spec |-> spec, message |-> IF st = "Error" THEN "BackendError" ELSE "none"]

NoSnap == VmSession("Stopped", 0, Null, FALSE, GoodSpec)

IdleTask == [pc |-> "idle", op |-> "none", sid |-> 0, snap |-> NoSnap,
             vmres |-> "none", newvm |-> 0, todo |-> {}]

NoReturn == [op |-> "none", sid |-> 0, res |-> "none"]

--------------------------------------------------------------------------
(* VmManager (vortex-core/src/vm.rs): validation, and the calls the Session   *)
(* Manager makes, each taken as one call with the backend's outcome chosen    *)
(* by the environment.  SpecVm below runs the same operations step by step.   *)

validate_spec(spec) ==
    IF spec.memory = 0 THEN "InvalidInput"
    ELSE IF spec.cpus = 0 THEN "InvalidInput"
    ELSE IF spec.max_memory # Null /\ spec.memory > spec.max_memory
         THEN "ResourceLimitExceeded"
    ELSE "Ok"

\* BackendProvider::get_backend
get_backend == IF backendAvail THEN "Ok" ELSE "BackendUnavailable"

\* What a VmManager call leaves behind: its result and the registry and inventory
\* after it.
VmOutcome(res, id, mem, inv) ==
    [res |-> res, id |-> id, instances |-> mem, inventory |-> inv]

\* a create that hands the spec to the backend without validate_spec
vm_create_unvalidated(spec, backend_ok) ==
    IF get_backend # "Ok"
    THEN VmOutcome(get_backend, 0, instances, inventory)
    ELSE IF backend_ok
    THEN VmOutcome("Ok", nextVm, Put(instances, nextVm, "Running"),
                   inventory \cup {nextVm})
    ELSE VmOutcome("BackendError", nextVm, Put(instances, nextVm, "Error"),
                   inventory)

\* VmManager::create(spec); backend_ok is the outcome of Backend::create
vm_create(spec, backend_ok) ==
    IF get_backend # "Ok"
    THEN VmOutcome(get_backend, 0, instances, inventory)
    ELSE IF validate_spec(spec) # "Ok"
    THEN VmOutcome(validate_spec(spec), 0, instances, inventory)
    ELSE IF backend_ok
    THEN VmOutcome("Ok", nextVm, Put(instances, nextVm, "Running"),
                   inventory \cup {nextVm})
    ELSE VmOutcome("BackendError", nextVm, Put(instances, nextVm, "Error"),
                   inventory)

\* the lookup stop and cleanup share: in memory, else in the backend's list
vm_lookup(mem, id) ==
    IF id \in DOMAIN mem THEN "Ok"
    ELSE IF get_backend # "Ok" THEN get_backend
    ELSE IF id \in inventory THEN "Ok"
    ELSE "VmNotFound"

\* VmManager::stop(vm_id); backend_ok is the outcome of Backend::stop
vm_stop(id, backend_ok) ==
    IF vm_lookup(instances, id) # "Ok"
    THEN VmOutcome(vm_lookup(instances, id), id, instances, inventory)
    ELSE IF backend_ok
    THEN VmOutcome("Ok", id, Put(instances, id, "Stopped"), inventory \ {id})
    ELSE VmOutcome("BackendError", id, instances, inventory)

\* VmManager::cleanup(vm_id): the record is removed before anything else
vm_cleanup(id, backend_ok) ==
    IF vm_lookup(instances, id) # "Ok"
    THEN VmOutcome(vm_lookup(instances, id), id, Remove(instances, id), inventory)
    ELSE IF backend_ok
    THEN VmOutcome("Ok", id, Remove(instances, id), inventory \ {id})
    ELSE VmOutcome("BackendError", id, Remove(instances, id), inventory)

\* VmManager::attach(vm_id), up to the backend's blocking attach
vm_attach_lookup(id) == IF id \in DOMAIN instances THEN "Ok" ELSE "VmNotFound"

VmResults == {"Ok", "BackendUnavailable", "InvalidInput", "ResourceLimitExceeded",
              "BackendError", "VmNotFound"}

--------------------------------------------------------------------------
(* SessionManager (src/core/session.rs) *)

\* save_sessions: the map m the read lock shows is serialized and written while
\* the lock is held; a failed write leaves the file as it was.
save_sessions(m, ok) ==
    IF ok
    THEN /\ file' = m
         /\ fileState' = "ok"
         /\ lastSaveOk' = TRUE
         /\ UNCHANGED saveFailures
    ELSE /\ saveFailures < MaxSaveFailures
         /\ saveFailures' = saveFailures + 1
         /\ lastSaveOk' = FALSE
         /\ UNCHANGED <<file, fileState>>

\* load_sessions: a missing file and a malformed one both give the empty map
load_sessions == IF fileState = "ok" THEN file ELSE EmptyMap

\* a reconciliation that forgets the Attached sessions
reconcile_running_only(session, running_vm_ids) ==
    IF session.state = "Running" /\ session.vm_id \notin running_vm_ids THEN "Stopped"
    ELSE IF session.state \in {"Stopped", "Error"} /\ session.vm_id \in running_vm_ids
    THEN "Detached"
    ELSE session.state

\* a reconciliation that stops every session whose VM is gone, whatever its state
reconcile_every_state(session, running_vm_ids) ==
    IF session.state \in {"Stopped", "Error"}
    THEN IF session.vm_id \in running_vm_ids THEN "Detached" ELSE session.state
    ELSE IF session.vm_id \notin running_vm_ids THEN "Stopped" ELSE session.state

\* reconcile_sessions, the loop over the sessions
reconcile_state(session, running_vm_ids) ==
    IF session.state \in {"Running", "Attached"}
    THEN IF session.vm_id \notin running_vm_ids THEN "Stopped" ELSE session.state
    ELSE IF session.state \in {"Stopped", "Error"}
    THEN IF session.vm_id \in running_vm_ids THEN "Detached" ELSE session.state
    ELSE session.state

reconcile_sessions(m, running_vm_ids) ==
    [s \in DOMAIN m |-> [m[s] EXCEPT !.state = reconcile_state(m[s], running_vm_ids),
                                   !.message = IF reconcile_state(m[s], running_vm_ids) = "Error"
                                               THEN m[s].message ELSE "none"]]

\* VmManager::list at startup: the registry is empty, so the backend is asked
vm_list_ids == IF DOMAIN instances # {} THEN DOMAIN instances ELSE inventory

\* the guards of self.sessions and of the VmManager's instances a task still holds
\* at an await point of its operation; every guard of session.rs and vm.rs lives
\* in a block or a callee that ends before the next await
GuardsAcrossAttach(pc) == IF pc = "attach_child" THEN {"sessions"} ELSE {}

held_guards(pc) == {}

\* lock.read().await / lock.write().await of task t returns
LockFree(t, lock) == \A u \in Tasks \ {t} : lock \notin held_guards(tasks[u].pc)

Return(t, res) ==
    /\ tasks' = [tasks EXCEPT ![t] = IdleTask]
    /\ lastReturn' = [op |-> tasks[t].op, sid |-> tasks[t].sid, res |-> res]

Goto(t, pc) ==
    /\ tasks' = [tasks EXCEPT ![t].pc = pc]
    /\ lastReturn' = lastReturn

Idle(t) == phase = "up" /\ tasks[t].pc = "idle"

At(t, pc) == tasks[t].pc = pc

\* SessionManager::new: load, reconcile, save; no task runs before it returns
SessionManager_new ==
    /\ phase = "boot"
    /\ UNCHANGED <<tasks, lastReturn, now, nextSess, commands, vmVars>>
    /\ SessionOnly
    /\ IF get_backend # "Ok"
       THEN /\ phase' = "failed"
            /\ sessions' = EmptyMap
            /\ UNCHANGED <<file, fileState, saveFailures, lastSaveOk>>
       ELSE /\ sessions' = reconcile_sessions(load_sessions, vm_list_ids)
            /\ \E ok \in BOOLEAN :
                 /\ save_sessions(sessions', ok)
                 /\ phase' = IF ok THEN "up" ELSE "failed"

\* the clock advances
Tick ==
    /\ phase = "up"
    /\ now + TickMinutes <= 60 + MaxTicks * TickMinutes
    /\ now' = now + TickMinutes
    /\ UNCHANGED <<phase, sessions, file, fileState, tasks, lastReturn, nextSess,
                   saveFailures, lastSaveOk, commands, vmVars>>
    /\ SessionOnly


\* the VM part of a step that calls the VmManager with outcome r
VmApply(r) ==
    /\ instances' = r.instances
    /\ inventory' = r.inventory
    /\ nextVm' = IF r.id = nextVm THEN nextVm + 1 ELSE nextVm
    /\ UNCHANGED backendAvail

\* a step that only touches the map
MapStep == UNCHANGED <<phase, file, fileState, now, nextSess, saveFailures, lastSaveOk,
                       commands, vmVars, apiVars, metVars, dVars, extVars>>
\* the first step of a command: the same, and one more command started
BeginStep ==
    /\ commands < MaxCommands
    /\ commands' = commands + 1
    /\ UNCHANGED <<phase, file, fileState, now, nextSess, saveFailures, lastSaveOk, vmVars>>
    /\ SessionOnly
\* a step that only writes the file
FileStep == UNCHANGED <<phase, sessions, now, nextSess, commands, vmVars, apiVars, metVars,
                        dVars, extVars>>
\* a step that only calls the VmManager
VmStep == UNCHANGED <<phase, sessions, file, fileState, now, nextSess, saveFailures, lastSaveOk,
                      commands, apiVars, metVars, dVars, extVars>>

\* tasks that hold a claim on one of the fresh vm ids of the run
Creators == {t \in Tasks : \/ tasks[t].pc \in {"create_save", "create_vm", "start_vm"}
                           \/ tasks[t].pc # "idle" /\ tasks[t].op = "restart"}
VmIdsLeft == nextVm + Cardinality(Creators) <= 1 + MaxNewVms

\* get_session, at the head of start, stop, pause, resume, attach and detach
GetSession(t, op, sid, pc) ==
    /\ Idle(t)
    /\ LockFree(t, "sessions")
    /\ BeginStep /\ UNCHANGED sessions
    /\ IF sid \in DOMAIN sessions
       THEN /\ tasks' = [tasks EXCEPT ![t] = [IdleTask EXCEPT !.pc = pc, !.op = op,
                                      !.sid = sid, !.snap = sessions[sid]]]
            /\ lastReturn' = NoReturn
       ELSE /\ tasks' = tasks
            /\ lastReturn' = [op |-> op, sid |-> sid,
                              res |-> "not_found"]

\* { let mut sessions = self.sessions.write().await; sessions.insert(id, session) }
Insert(t, session, pc) ==
    /\ LockFree(t, "sessions")
    /\ sessions' = Put(sessions, tasks[t].sid, session)
    /\ Goto(t, pc)
    /\ MapStep

\* self.save_sessions().await?  and then the operation's Ok(())
SaveAndReturn(t) ==
    /\ FileStep
    /\ LockFree(t, "sessions")
    /\ \E ok \in BOOLEAN :
         /\ save_sessions(sessions, ok)
         /\ Return(t, IF ok THEN "ok" ELSE "persist_err")

\* a save whose error is dropped: the operation goes on
SaveAndGotoIgnoringError(t, pc) ==
    /\ FileStep
    /\ LockFree(t, "sessions")
    /\ \E ok \in BOOLEAN :
         /\ save_sessions(sessions, ok)
         /\ Goto(t, pc)

\* self.save_sessions().await?  followed by more of the operation
SaveAndGoto(t, pc) ==
    /\ FileStep
    /\ LockFree(t, "sessions")
    /\ \E ok \in BOOLEAN :
         /\ save_sessions(sessions, ok)
         /\ IF ok THEN Goto(t, pc) ELSE Return(t, "persist_err")

---- 
(* list_sessions, get_session *)

\* the ListSessions command: the values of the map under the read lock
list_sessions(t) ==
    /\ Idle(t)
    /\ LockFree(t, "sessions")
    /\ BeginStep /\ UNCHANGED sessions
    /\ tasks' = tasks
    /\ lastReturn' = [op |-> "list", sid |-> 0, res |-> "ok"]

\* the GetSession command: Ok(None) is answered "Session <id> not found"
get_session(t, sid) ==
    /\ Idle(t)
    /\ LockFree(t, "sessions")
    /\ BeginStep /\ UNCHANGED sessions
    /\ tasks' = tasks
    /\ lastReturn' = [op |-> "get", sid |-> sid,
                      res |-> IF sid \in DOMAIN sessions THEN "ok" ELSE "not_found"]

---- 
(* create_session *)

create_session(t, spec, persistent) ==
    /\ Idle(t)
    /\ LockFree(t, "sessions")
    /\ nextSess <= 1 + MaxNewSessions
    /\ VmIdsLeft
    /\ LET session == VmSession("Creating", PlaceholderVm(nextSess), Null,
                                persistent, spec)
       IN /\ sessions' = Put(sessions, nextSess, session)
          /\ tasks' = [tasks EXCEPT ![t] = [IdleTask EXCEPT !.pc = "create_save",
                           !.op = "create", !.sid = nextSess, !.snap = session]]
    /\ nextSess' = nextSess + 1
    /\ lastReturn' = NoReturn
    /\ commands < MaxCommands
    /\ commands' = commands + 1
    /\ UNCHANGED <<phase, file, fileState, now, saveFailures, lastSaveOk, vmVars>>
    /\ SessionOnly

create_session_save(t) ==
    /\ At(t, "create_save")
    /\ SaveAndGoto(t, "create_vm")

create_session_vm(t) ==
    /\ At(t, "create_vm")
    /\ LockFree(t, "instances")
    /\ \E backend_ok \in BOOLEAN :
         LET r == vm_create(tasks[t].snap.spec, backend_ok)
         IN /\ VmApply(r)
            /\ tasks' = [tasks EXCEPT ![t].pc = "create_insert",
                                      ![t].vmres = r.res, ![t].newvm = r.id]
    /\ lastReturn' = lastReturn
    /\ VmStep

create_session_insert(t) ==
    /\ At(t, "create_insert")
    /\ IF tasks[t].vmres = "Ok"
       THEN Insert(t, [tasks[t].snap EXCEPT !.vm_id = tasks[t].newvm,
                                            !.state = "Detached", !.message = "none"], "create_save2")
       ELSE Insert(t, [tasks[t].snap EXCEPT !.state = "Error",
                                            !.message = tasks[t].vmres], "create_save2")

create_session_save2(t) ==
    /\ At(t, "create_save2")
    /\ FileStep
    /\ LockFree(t, "sessions")
    /\ \E ok \in BOOLEAN :
         /\ save_sessions(sessions, ok)
         /\ Return(t, IF ~ok THEN "persist_err"
                      ELSE IF tasks[t].vmres = "Ok" THEN "ok" ELSE tasks[t].vmres)

---- 
(* delete_session *)

\* the head of delete_session: the record is taken out of the map
delete_remove(t, op, sid, todo) ==
    IF sid \in DOMAIN sessions
    THEN /\ sessions' = Remove(sessions, sid)
         /\ tasks' = [tasks EXCEPT ![t] = [IdleTask EXCEPT !.pc = "delete_cleanup",
                        !.op = op, !.sid = sid, !.snap = sessions[sid],
                        !.todo = todo]]
         /\ lastReturn' = NoReturn
    ELSE /\ sessions' = sessions
         /\ IF op = "delete"
            THEN /\ tasks' = tasks
                 /\ lastReturn' = [op |-> op, sid |-> sid,
                                   res |-> "not_found"]
            ELSE /\ tasks' = [tasks EXCEPT ![t] = [IdleTask EXCEPT
                                !.pc = "stale_next", !.op = op, !.todo = todo]]
                 /\ lastReturn' = NoReturn

delete_session(t, sid) ==
    /\ Idle(t)
    /\ LockFree(t, "sessions")
    /\ BeginStep
    /\ delete_remove(t, "delete", sid, {})

delete_session_cleanup(t) ==
    /\ At(t, "delete_cleanup")
    /\ LockFree(t, "instances")
    /\ \E backend_ok \in BOOLEAN :
         VmApply(vm_cleanup(tasks[t].snap.vm_id, backend_ok))
    /\ Goto(t, "delete_save")
    /\ VmStep

\* the save that ends delete_session; cleanup_stale_sessions logs its error and goes on
delete_session_save(t) ==
    /\ At(t, "delete_save")
    /\ FileStep
    /\ LockFree(t, "sessions")
    /\ \E ok \in BOOLEAN :
         /\ save_sessions(sessions, ok)
         /\ IF tasks[t].op = "delete"
            THEN Return(t, IF ok THEN "ok" ELSE "persist_err")
            ELSE Goto(t, "stale_next")

---- 
(* start_session, stop_session, restart_session *)

\* the match of start_session on the state it read; "noop" is the Ok(()) of the
\* arm that changes nothing
start_match(t, op, sid, session) ==
    IF session.state \in {"Stopped", "Error"}
    THEN /\ tasks' = [tasks EXCEPT ![t] = [IdleTask EXCEPT !.pc = "start_vm",
                           !.op = op, !.sid = sid, !.snap = session]]
         /\ lastReturn' = NoReturn
    ELSE /\ tasks' = [tasks EXCEPT ![t] = IdleTask]
         /\ lastReturn' = [op |-> op, sid |-> sid,
                           res |-> IF session.state \in {"Running", "Detached",
                                                         "Attached"}
                                   THEN "noop" ELSE "state_err"]

start_session(t, sid) ==
    /\ Idle(t)
    /\ LockFree(t, "sessions")
    /\ BeginStep /\ UNCHANGED sessions
    /\ IF sid \in DOMAIN sessions
       THEN /\ sessions[sid].state \in {"Stopped", "Error"} => VmIdsLeft
            /\ start_match(t, "start", sid, sessions[sid])
       ELSE /\ tasks' = tasks
            /\ lastReturn' = [op |-> "start", sid |-> sid,
                              res |-> "not_found"]

start_session_vm(t) ==
    /\ At(t, "start_vm")
    /\ LockFree(t, "instances")
    /\ \E backend_ok \in BOOLEAN :
         LET r == vm_create(tasks[t].snap.spec, backend_ok)
         IN /\ VmApply(r)
            /\ IF r.res = "Ok"
               THEN /\ tasks' = [tasks EXCEPT ![t].pc = "start_insert",
                                              ![t].newvm = r.id]
                    /\ lastReturn' = lastReturn
               ELSE Return(t, r.res)
    /\ VmStep

start_session_insert(t) ==
    /\ At(t, "start_insert")
    /\ Insert(t, [tasks[t].snap EXCEPT !.vm_id = tasks[t].newvm,
                                       !.state = "Detached", !.message = "none"], "start_save")

start_session_save(t) ==
    /\ At(t, "start_save")
    /\ SaveAndReturn(t)

stop_session(t, sid) ==
    GetSession(t, "stop", sid, "stop_vm")

\* the VmManager's stop; its failure is logged and ignored
stop_session_vm(t) ==
    /\ At(t, "stop_vm")
    /\ LockFree(t, "instances")
    /\ \E backend_ok \in BOOLEAN :
         VmApply(vm_stop(tasks[t].snap.vm_id, backend_ok))
    /\ Goto(t, "stop_insert")
    /\ VmStep

stop_session_insert(t) ==
    /\ At(t, "stop_insert")
    /\ Insert(t, [tasks[t].snap EXCEPT !.state = "Stopped", !.message = "none"], "stop_save")

stop_session_save(t) ==
    /\ At(t, "stop_save")
    /\ IF tasks[t].op = "restart"
       THEN SaveAndGoto(t, "restart_sleep")
       ELSE SaveAndReturn(t)

restart_session(t, sid) ==
    /\ VmIdsLeft
    /\ GetSession(t, "restart", sid, "stop_vm")

\* after the sleep, restart_session calls start_session
restart_session_start(t) ==
    /\ At(t, "restart_sleep")
    /\ LockFree(t, "sessions")
    /\ MapStep /\ UNCHANGED sessions
    /\ IF tasks[t].sid \in DOMAIN sessions
       THEN start_match(t, "restart", tasks[t].sid, sessions[tasks[t].sid])
       ELSE Return(t, "not_found")

---- 
(* pause_session, resume_session, detach_session *)

pause_session(t, sid) ==
    GetSession(t, "pause", sid, "pause_insert")

pause_session_insert(t) ==
    /\ At(t, "pause_insert")
    /\ Insert(t, [tasks[t].snap EXCEPT !.state = "Paused", !.message = "none"], "pause_save")

pause_session_save(t) ==
    /\ At(t, "pause_save")
    /\ SaveAndReturn(t)

resume_session(t, sid) ==
    GetSession(t, "resume", sid, "resume_insert")

resume_session_insert(t) ==
    /\ At(t, "resume_insert")
    /\ Insert(t, [tasks[t].snap EXCEPT !.state = "Detached", !.message = "none"], "resume_save")

resume_session_save(t) ==
    /\ At(t, "resume_save")
    /\ SaveAndReturn(t)

detach_session(t, sid) ==
    GetSession(t, "detach", sid, "detach_insert")

detach_session_insert(t) ==
    /\ At(t, "detach_insert")
    /\ Insert(t, [tasks[t].snap EXCEPT !.state = "Detached", !.message = "none"], "detach_save")

detach_session_save(t) ==
    /\ At(t, "detach_save")
    /\ SaveAndReturn(t)

---- 
(* attach_session *)

attach_session(t, sid) ==
    /\ Idle(t)
    /\ LockFree(t, "sessions")
    /\ BeginStep /\ UNCHANGED sessions
    /\ IF sid \in DOMAIN sessions
       THEN IF sessions[sid].state \in {"Detached", "Running"}
            THEN /\ tasks' = [tasks EXCEPT ![t] = [IdleTask EXCEPT
                                !.pc = "attach_insert", !.op = "attach",
                                !.sid = sid, !.snap = sessions[sid]]]
                 /\ lastReturn' = NoReturn
            ELSE /\ tasks' = tasks
                 /\ lastReturn' = [op |-> "attach", sid |-> sid,
                                   res |-> IF sessions[sid].state = "Attached"
                                           THEN "already_attached"
                                           ELSE "state_err"]
       ELSE /\ tasks' = tasks
            /\ lastReturn' = [op |-> "attach", sid |-> sid,
                              res |-> "not_found"]

\* updated_session: Attached, last_attached = Some(Utc::now())
attach_session_insert(t) ==
    /\ At(t, "attach_insert")
    /\ Insert(t, [tasks[t].snap EXCEPT !.state = "Attached", !.message = "none",
                                       !.last_attached = now], "attach_save")

attach_session_save(t) ==
    /\ At(t, "attach_save")
    /\ SaveAndGoto(t, "attach_vm")

\* self.vm_manager.attach(&session.vm_id): the registry lookup, then the backend
attach_session_vm(t) ==
    /\ At(t, "attach_vm")
    /\ LockFree(t, "instances")
    /\ IF vm_attach_lookup(tasks[t].snap.vm_id) = "Ok"
       THEN Goto(t, "attach_child")
       ELSE Return(t, vm_attach_lookup(tasks[t].snap.vm_id))
    /\ UNCHANGED <<phase, sessions, file, fileState, now, nextSess, saveFailures, lastSaveOk,
                   commands, vmVars>>
    /\ SessionOnly

\* Backend::attach returns when the interactive child exits
attach_session_child_exit(t) ==
    /\ At(t, "attach_child")
    /\ \E backend_ok \in BOOLEAN :
         IF backend_ok THEN Goto(t, "attach_insert2")
         ELSE Return(t, "BackendError")
    /\ UNCHANGED <<phase, sessions, file, fileState, now, nextSess, saveFailures, lastSaveOk,
                   commands, vmVars>>
    /\ SessionOnly

\* detached_session: the session as get_session read it, with state Detached
attach_session_insert2(t) ==
    /\ At(t, "attach_insert2")
    /\ Insert(t, [tasks[t].snap EXCEPT !.state = "Detached", !.message = "none"], "attach_save2")

attach_session_save2(t) ==
    /\ At(t, "attach_save2")
    /\ SaveAndReturn(t)

---- 
(* cleanup_stale_sessions *)

num_hours(minutes) == minutes \div 60

is_stale(session) ==
    /\ ~session.persistent
    /\ session.last_attached # Null
    /\ num_hours(now - session.last_attached) > 24
    /\ session.state = "Detached"

\* the scan under the read lock
cleanup_stale_sessions(t) ==
    /\ Idle(t)
    /\ LockFree(t, "sessions")
    /\ tasks' = [tasks EXCEPT ![t] = [IdleTask EXCEPT !.pc = "stale_next",
                     !.op = "cleanup_stale",
                     !.todo = {s \in DOMAIN sessions : is_stale(sessions[s])}]]
    /\ lastReturn' = NoReturn
    /\ BeginStep /\ UNCHANGED sessions

\* the loop over sessions_to_remove: delete_session of the next one, or Ok(())
\* ("noop" when no session was removed)
cleanup_stale_sessions_next(t) ==
    /\ At(t, "stale_next")
    /\ IF tasks[t].todo = {}
       THEN /\ Return(t, IF tasks[t].sid = 0 THEN "noop" ELSE "ok")
            /\ MapStep /\ UNCHANGED sessions
       ELSE /\ MapStep
            /\ LockFree(t, "sessions")
            /\ \E sid \in tasks[t].todo :
                  delete_remove(t, "cleanup_stale", sid, tasks[t].todo \ {sid})

--------------------------------------------------------------------------
(* Data of the VmManager's callers, the MetricsCollector and the daemon, and  *)
(* the state each of them is in while it is not running.                     *)

VmTasks == 1..NumVmTasks

ZeroCpuSpec == [memory |-> 512, cpus |-> 0, max_memory |-> Null]
OverLimitSpec == [memory |-> 512, cpus |-> 1, max_memory |-> 256]

\* GlobalResourceLimits::default(), the caps of the configuration (MiB, VMs)
GlobalResourceLimits ==
    [max_memory_per_vm |-> 8192, max_concurrent_vms |-> 10, max_total_memory |-> 16384]

\* a spec above max_memory_per_vm
OverCapSpec == [memory |-> 9000, cpus |-> 1, max_memory |-> Null]
VmSpecs == {GoodSpec, ZeroMemSpec, ZeroCpuSpec, OverLimitSpec}
CapSpecs == {ZeroMemSpec, OverCapSpec}

VmEvent(kind, id) == [kind |-> kind, vm_id |-> id]

\* the events the specification calls terminal
TerminalEvents == {"Started", "Stopped", "Error"}

\* queue: the events the call has still to emit; ev, hidx: the event emit_event is
\* delivering and the handler it has come to; terminal: terminal events emitted so
\* far; called: a method of the backend was called; acted: Backend::create, stop or
\* cleanup was called; inserted: a registry record was written
IdleVmTask == [pc |-> "idle", op |-> "none", id |-> 0, spec |-> GoodSpec,
               res |-> "none", queue |-> <<>>, ev |-> 0, hidx |-> 0,
               terminal |-> 0, emits |-> 0, called |-> FALSE, acted |-> FALSE,
               inserted |-> FALSE, listed |-> EmptyMap,
               vmstate |-> "none"]

NoVmReturn == [op |-> "none", id |-> 0, spec |-> GoodSpec, res |-> "none",
               terminal |-> 0, emits |-> 0, called |-> FALSE, acted |-> FALSE,
               inserted |-> FALSE, listed |-> EmptyMap,
               vmstate |-> "none"]

ApiAtRest ==
    /\ vmTasks = [t \in VmTasks |-> IdleVmTask]
    /\ event_handlers = <<>>
    /\ delivered = <<>>
    /\ emitted = <<>>
    /\ vmReturn = NoVmReturn
    /\ vmOps = 0

MetricTasks == 1..NumMetricTasks

FreeLock == [writer |-> 0, readers |-> {}]

IdleMetricTask == [pc |-> "idle", op |-> "none", event |-> VmEvent("none", 0),
                   todo |-> <<>>]

MetricsAtRest ==
    /\ vm_metrics = {}
    /\ system_metrics = 0
    /\ locks = [vm_metrics |-> FreeLock, system_metrics |-> FreeLock]
    /\ mTasks = [t \in MetricTasks |-> IdleMetricTask]
    /\ mCalls = 0

Conns == 1..MaxConns

NoConn == [pc |-> "none", cmd |-> "none", answered |-> "none", sent |-> 0,
           reqs |-> <<>>, resp |-> "none", resps |-> <<>>, closedBy |-> "none"]

DaemonAtRest ==
    /\ running = FALSE
    /\ acceptLoop = "off"
    /\ socketFile = FALSE
    /\ conns = [c \in Conns |-> NoConn]

\* Daemon processes: 1 is started by someone else, 2 by the auto-spawn client.
DaemonIds == 1..NumDaemons

NoClient == [pc |-> "none", pings |-> 0, spawns |-> 0, slept |-> 0, res |-> "none"]

LaunchAtRest ==
    /\ daemons = [d \in DaemonIds |-> "off"]
    /\ sockPath = 0
    /\ client = NoClient

\* The characters template_to_vm_spec looks for, and one it does not.
\* (the backtick, the newline and the carriage return are written by name)
Forbidden == {"&", "|", ";", "backtick", "$", "(", ")", "<", ">", "newline", "cr"}
Chars == Forbidden \cup {"a"}

\* a command is its characters
Commands == UNION {[1..n -> Chars] : n \in 1..MaxCommandLen}
CommandLists == UNION {[1..n -> Commands] : n \in 0..MaxTemplateCommands}

\* DevTemplate, reduced to what the conversions read: the startup commands and
\* whether every entry of ports parses as host:guest (u16:u16)
DevTemplate(startup_commands, ports_ok) ==
    [startup_commands |-> startup_commands, ports_ok |-> ports_ok]

\* "apt-get update && apt-get install -y ...", "pip install ...", "apk add ..."
AptGetUpdateInstall == <<"a", " ", "&", "&", " ", "a">>
PipInstall == <<"a", " ", "a">>
ApkAdd == <<"a", " ", "a", "a">>

\* load_builtin_templates: python (like node, rust and ai) and go
BuiltinTemplates ==
    [name \in {"python", "go"} |->
       IF name = "python" THEN DevTemplate(<<AptGetUpdateInstall, PipInstall>>, TRUE)
       ELSE DevTemplate(<<ApkAdd>>, TRUE)]

TemplateNames == {"python", "go", "custom"}

NoTplReturn ==
    [op |-> "none", name |-> "none", res |-> "none", field |-> "none",
     command |-> <<>>, template |-> Null]

TemplatesAtRest ==
    /\ templates = BuiltinTemplates
    /\ tplReturn = NoTplReturn
    /\ tplOps = 0

\* an image string: word pieces, slashes and colons
ImageChars == {"alpine", "x", "/", ":"}
Images == UNION {[1..n -> ImageChars] : n \in 1..MaxImageLen}
ImageAtRest == image = <<"alpine">> /\ image_name = <<>>

WsTasks == 1..NumWsTasks
WsIds == 1..MaxWorkspaces
WsNames == {"proj", "other"}
WsTemplates == {"python", "go"}

\* VortexWorkspaceConfig: the fields the operations read or write
VortexWorkspaceConfig(name, template, last_used) ==
    [name |-> name, template |-> template, preferred_workdir |-> "/workspace",
     last_used |-> last_used]
NoConfig == [name |-> "none", template |-> "none", preferred_workdir |-> "none",
             last_used |-> 0]
\* content of a .vortex.json: absent, created and not yet written, or a config
WsFile(kind, config) == [kind |-> kind, config |-> config]
NoFile == WsFile("missing", NoConfig)
\* the .vortex.json a source directory may hold: that of an older workspace
SourceConfig == VortexWorkspaceConfig("old", "go", 0)
Sources == {"none", "plain", "with_config"}

IdleWsTask == [pc |-> "idle", op |-> "none", id |-> 0, config |-> NoConfig,
               source |-> "none"]
NoWsReturn == [op |-> "none", id |-> 0, res |-> "none", config |-> NoConfig,
               list |-> {}]

\* WorkspaceManager::new on an empty workspaces directory
WorkspacesAtRest ==
    /\ wsDir = [id \in WsIds |-> FALSE]
    /\ wsFile = [id \in WsIds |-> NoFile]
    /\ wsCreated = [id \in WsIds |-> NoConfig]
    /\ wsTasks = [t \in WsTasks |-> IdleWsTask]
    /\ wsReturn = NoWsReturn
    /\ wsNow = 1
    /\ nextWs = 1
    /\ wsOps = 0

ExtAtRest == LaunchAtRest /\ TemplatesAtRest /\ ImageAtRest /\ WorkspacesAtRest

SessionAtRest ==
    /\ phase = "boot"
    /\ sessions = EmptyMap
    /\ file = EmptyMap
    /\ fileState = "missing"
    /\ tasks = [t \in Tasks |-> IdleTask]
    /\ lastReturn = NoReturn
    /\ now = 60
    /\ nextSess = 2
    /\ saveFailures = 0
    /\ lastSaveOk = TRUE
    /\ commands = 0

VmAtRest ==
    /\ instances = EmptyMap
    /\ inventory = {}
    /\ backendAvail = TRUE
    /\ nextVm = 2

--------------------------------------------------------------------------
(* Specification of the Session Manager *)

\* A sessions file left by an earlier run holds session 1, bound to VM 1, never
\* attached, or last attached at time 0 or at time 60 (the time of the startup).
InitFileSessions ==
    {VmSession(st, 1, Null, FALSE, GoodSpec) : st \in SessionState}
    \cup {VmSession("Detached", 1, la, FALSE, GoodSpec) : la \in {0, 60}}

InitVm ==
    /\ instances = EmptyMap
    /\ inventory \in SUBSET {1}
    /\ backendAvail \in BOOLEAN
    /\ nextVm = 2

InitSession ==
    /\ phase = "boot"
    /\ sessions = EmptyMap
    /\ \/ /\ fileState \in {"missing", "malformed"}
          /\ file = EmptyMap
       \/ /\ fileState = "ok"
          /\ \/ file = EmptyMap
             \/ \E session \in InitFileSessions : file = Put(EmptyMap, 1, session)
    /\ tasks = [t \in Tasks |-> IdleTask]
    /\ lastReturn = NoReturn
    /\ now = 60
    /\ nextSess = 2
    /\ saveFailures = 0
    /\ lastSaveOk = TRUE
    /\ commands = 0
    /\ InitVm
    /\ ApiAtRest /\ MetricsAtRest /\ DaemonAtRest /\ ExtAtRest

SessionTaskStep(t) ==
    \/ create_session_save(t) \/ create_session_vm(t)
    \/ create_session_insert(t) \/ create_session_save2(t)
    \/ delete_session_cleanup(t) \/ delete_session_save(t)
    \/ start_session_vm(t) \/ start_session_insert(t) \/ start_session_save(t)
    \/ stop_session_vm(t) \/ stop_session_insert(t) \/ stop_session_save(t)
    \/ restart_session_start(t)
    \/ pause_session_insert(t) \/ pause_session_save(t)
    \/ resume_session_insert(t) \/ resume_session_save(t)
    \/ detach_session_insert(t) \/ detach_session_save(t)
    \/ attach_session_insert(t) \/ attach_session_save(t) \/ attach_session_vm(t)
    \/ attach_session_child_exit(t) \/ attach_session_insert2(t)
    \/ attach_session_save2(t)
    \/ cleanup_stale_sessions_next(t)

SessionCommand(t) ==
    \/ \E spec \in SessionSpecs, persistent \in BOOLEAN :
           create_session(t, spec, persistent)
    \/ list_sessions(t)
    \/ \E sid \in SessIds :
           \/ get_session(t, sid)
           \/ delete_session(t, sid)
           \/ start_session(t, sid)
           \/ stop_session(t, sid)
           \/ restart_session(t, sid)
           \/ pause_session(t, sid)
           \/ resume_session(t, sid)
           \/ attach_session(t, sid)
           \/ detach_session(t, sid)
    \/ cleanup_stale_sessions(t)

NextSession ==
    \/ SessionManager_new
    \/ Tick
    \/ \E t \in Tasks : SessionCommand(t) \/ SessionTaskStep(t)

SpecSession == InitSession /\ [][NextSession]_vars

\* A daemon that is up with one session whose create_session has returned Ok:
\* the session is Detached, its VM is in the registry and in the backend, and
\* the file holds the map.
InitAttach ==
    /\ phase = "up"
    /\ \E persistent \in BOOLEAN :
         sessions = Put(EmptyMap, 1, VmSession("Detached", 1, Null, persistent, GoodSpec))
    /\ file = sessions
    /\ fileState = "ok"
    /\ tasks = [t \in Tasks |-> IdleTask]
    /\ lastReturn = NoReturn
    /\ now = 60
    /\ nextSess = 2
    /\ saveFailures = 0
    /\ lastSaveOk = TRUE
    /\ commands = 0
    /\ instances = Put(EmptyMap, 1, "Running")
    /\ inventory = {1}
    /\ backendAvail = TRUE
    /\ nextVm = 2
    /\ ApiAtRest /\ MetricsAtRest /\ DaemonAtRest /\ ExtAtRest

NextAttach ==
    \/ Tick
    \/ \E t \in Tasks : SessionCommand(t) \/ SessionTaskStep(t)

SpecAttach == InitAttach /\ [][NextAttach]_vars

--------------------------------------------------------------------------
(* Claims about the Session Manager *)

Quiescent == phase = "up" /\ \A t \in Tasks : tasks[t].pc = "idle"

\* The state matrix of section 4.3: the cell of (state, operation).
Matrix(from, op) ==
    CASE from = "Creating" -> "dash"
      [] from \in {"Detached", "Running"} ->
           (CASE op = "start" -> "noop"
              [] op \in {"stop", "pause", "attach", "detach"} -> "ok"
              [] OTHER -> "dash")
      [] from = "Attached" ->
           (CASE op = "start" -> "noop"
              [] op \in {"stop", "pause", "detach"} -> "ok"
              [] op = "attach" -> "err"
              [] OTHER -> "dash")
      [] from = "Paused" ->
           (CASE op \in {"stop", "resume", "detach"} -> "ok"
              [] OTHER -> "dash")
      [] from = "Stopped" ->
           (CASE op = "start" -> "ok"
              [] op = "stop" -> "noop"
              [] OTHER -> "dash")
      [] OTHER ->
           (CASE op = "start" -> "ok"
              [] OTHER -> "dash")

\* the operation whose first write to the map a task is about to make
WritingOp(pc) ==
    CASE pc = "start_insert" -> "start"
      [] pc = "stop_insert" -> "stop"
      [] pc = "pause_insert" -> "pause"
      [] pc = "resume_insert" -> "resume"
      [] pc = "attach_insert" -> "attach"
      [] pc = "detach_insert" -> "detach"
      [] OTHER -> "none"

\* C1: when start, stop, pause, resume, attach or detach writes a session whose
\* state it changes, the section 4.3 matrix lists the (state before, operation) cell
\* as ok or no-op; an operation applied in a state whose cell is a dash never
\* changes the session's state.
C1_MatrixRespected ==
    [][\A t \in Tasks :
         (/\ WritingOp(tasks[t].pc) # "none"
          /\ tasks'[t].pc # tasks[t].pc
          /\ tasks[t].sid \in DOMAIN sessions
          /\ tasks[t].snap.state = sessions[tasks[t].sid].state
          /\ sessions'[tasks[t].sid].state # sessions[tasks[t].sid].state)
         => Matrix(sessions[tasks[t].sid].state, WritingOp(tasks[t].pc))
               \in {"ok", "noop"}]_vars

\* the tasks that passed attach_session's state check for session s and are calling
\* the lifecycle manager's attach, or are inside it
Attaching(s) ==
    {t \in Tasks : tasks[t].sid = s /\ tasks[t].pc \in {"attach_vm", "attach_child"}}

\* C2: of two attach_session calls on one session at most one gets to the lifecycle
\* manager's attach; the other returns 'already attached'.
C2_SingleAttach == \A s \in SessIds : Cardinality(Attaching(s)) <= 1

MutatingOps == {"create", "delete", "start", "stop", "restart", "pause", "resume",
                "attach", "detach", "cleanup_stale"}

FileIsMap == fileState = "ok" /\ file = sessions

\* C3: whenever a session-mutating operation that changed the map (or the startup
\* reconciliation) has returned without a persistence error and no operation is in
\* flight, the sessions file holds exactly the in-memory map, every session with
\* its post-mutation state.
C3_FileAfterReturn ==
    (/\ Quiescent
     /\ \/ commands = 0
        \/ lastReturn.op \in MutatingOps /\ lastReturn.res = "ok")
    => FileIsMap

\* C4: when attach_session returns success, the session is Detached with a non-null
\* last_attached, in memory and in the sessions file.
C4_AttachReturn ==
    (/\ Quiescent
     /\ lastReturn.op = "attach" /\ lastReturn.res = "ok"
     /\ lastSaveOk)
    => /\ lastReturn.sid \in DOMAIN sessions
       /\ sessions[lastReturn.sid].state = "Detached"
       /\ sessions[lastReturn.sid].last_attached # Null
       /\ lastReturn.sid \in DOMAIN file
       /\ file[lastReturn.sid].state = "Detached"
       /\ file[lastReturn.sid].last_attached # Null

--------------------------------------------------------------------------
(* VmManager (vortex-core/src/vm.rs), step by step: create, stop, cleanup,    *)
(* add_event_handler and emit_event, called by concurrent tasks.              *)

IdleVm(t) == vmTasks[t].pc = "idle"

AtVm(t, pc) == vmTasks[t].pc = pc

\* task t's call returns res; task is its record at that moment
VmReturn(t, task, res) ==
    /\ VmApiOnly
    /\ vmTasks' = [vmTasks EXCEPT ![t] = IdleVmTask]
    /\ vmReturn' = [op |-> task.op, id |-> task.id, spec |-> task.spec, res |-> res,
                    terminal |-> task.terminal, emits |-> task.emits,
                    called |-> task.called, acted |-> task.acted,
                    inserted |-> task.inserted, listed |-> task.listed,
                    vmstate |-> task.vmstate]

VmGoto(t, task) ==
    /\ VmApiOnly
    /\ vmTasks' = [vmTasks EXCEPT ![t] = task]
    /\ vmReturn' = vmReturn

\* one more call started
VmBegin ==
    /\ vmOps < MaxVmOps
    /\ vmOps' = vmOps + 1

\* the tasks that hold the read lock of event_handlers
Emitting == {t \in VmTasks : vmTasks[t].pc = "emit_loop"}

\* create, up to the registry: generate_vm_id, get_backend, validate_spec
create(t, spec) ==
    /\ IdleVm(t)
    /\ VmBegin
    /\ nextVm <= 1 + MaxNewVms
    /\ nextVm' = nextVm + 1
    /\ LET task == [IdleVmTask EXCEPT !.op = "create", !.id = nextVm, !.spec = spec]
       IN IF get_backend # "Ok" THEN VmReturn(t, task, get_backend)
          ELSE IF validate_spec(spec) # "Ok" THEN VmReturn(t, task, validate_spec(spec))
          ELSE VmGoto(t, [task EXCEPT !.pc = "create_store"])
    /\ UNCHANGED <<instances, inventory, backendAvail, event_handlers, delivered,
                   emitted>>

\* the record is stored in state Creating
create_store(t) ==
    /\ AtVm(t, "create_store")
    /\ instances' = Put(instances, vmTasks[t].id, "Creating")
    /\ VmGoto(t, [vmTasks[t] EXCEPT !.pc = "create_backend", !.inserted = TRUE])
    /\ UNCHANGED <<inventory, backendAvail, nextVm, event_handlers, delivered,
                   emitted, vmOps>>

\* vm.backend.create(&vm)
create_backend(t) ==
    /\ AtVm(t, "create_backend")
    /\ \E backend_ok \in BOOLEAN :
         /\ inventory' = IF backend_ok THEN inventory \cup {vmTasks[t].id}
                         ELSE inventory
         /\ VmGoto(t, [vmTasks[t] EXCEPT
                         !.pc = IF backend_ok THEN "create_ok" ELSE "create_err",
                         !.called = TRUE, !.acted = TRUE])
    /\ UNCHANGED <<instances, backendAvail, nextVm, event_handlers, delivered,
                   emitted, vmOps>>

\* the Ok arm: the record becomes Running; Created and Started are to be emitted
create_ok(t) ==
    /\ AtVm(t, "create_ok")
    /\ instances' = Put(instances, vmTasks[t].id, "Running")
    /\ VmGoto(t, [vmTasks[t] EXCEPT !.pc = "emit", !.res = "Ok",
                    !.queue = <<VmEvent("Created", vmTasks[t].id),
                                VmEvent("Started", vmTasks[t].id)>>])
    /\ UNCHANGED <<inventory, backendAvail, nextVm, event_handlers, delivered,
                   emitted, vmOps>>

\* an Err arm that drops the record instead of keeping it
create_err_dropping_record(t) ==
    /\ AtVm(t, "create_err")
    /\ instances' = Remove(instances, vmTasks[t].id)
    /\ VmGoto(t, [vmTasks[t] EXCEPT !.pc = "emit", !.res = "BackendError",
                    !.queue = <<VmEvent("Error", vmTasks[t].id)>>])
    /\ UNCHANGED <<inventory, backendAvail, nextVm, event_handlers, delivered,
                   emitted, vmOps>>

\* the Err arm: the record becomes Error; Error is to be emitted
create_err(t) ==
    /\ AtVm(t, "create_err")
    /\ instances' = Put(instances, vmTasks[t].id, "Error")
    /\ VmGoto(t, [vmTasks[t] EXCEPT !.pc = "emit", !.res = "BackendError",
                    !.queue = <<VmEvent("Error", vmTasks[t].id)>>])
    /\ UNCHANGED <<inventory, backendAvail, nextVm, event_handlers, delivered,
                   emitted, vmOps>>

\* a lookup that never asks the backend
lookup_registry_only(t, task, found, pc) ==
    IF found THEN VmGoto(t, [task EXCEPT !.pc = pc, !.vmstate = instances[task.id]])
    ELSE VmReturn(t, task, "VmNotFound")

\* the head of stop and of cleanup once the registry has answered: the record
\* (vmstate is the state of the clone the call works on), or else the backend's
\* list and a minimal Running instance
lookup(t, task, found, pc) ==
    IF found THEN VmGoto(t, [task EXCEPT !.pc = pc, !.vmstate = instances[task.id]])
    ELSE IF get_backend # "Ok" THEN VmReturn(t, task, get_backend)
    ELSE IF task.id \in inventory
    THEN VmGoto(t, [task EXCEPT !.pc = pc, !.called = TRUE, !.vmstate = "Running"])
    ELSE VmReturn(t, [task EXCEPT !.called = TRUE], "VmNotFound")

stop(t, id) ==
    /\ IdleVm(t)
    /\ VmBegin
    /\ lookup(t, [IdleVmTask EXCEPT !.op = "stop", !.id = id],
              id \in DOMAIN instances, "stop_backend")
    /\ UNCHANGED <<instances, inventory, backendAvail, nextVm, event_handlers,
                   delivered, emitted>>

\* vm.backend.stop(&vm).await?
stop_backend(t) ==
    /\ AtVm(t, "stop_backend")
    /\ \E backend_ok \in BOOLEAN :
         LET task == [vmTasks[t] EXCEPT !.called = TRUE, !.acted = TRUE]
         IN IF backend_ok
            THEN /\ inventory' = inventory \ {task.id}
                 /\ VmGoto(t, [task EXCEPT !.pc = "stop_store"])
            ELSE /\ inventory' = inventory
                 /\ VmReturn(t, task, "BackendError")
    /\ UNCHANGED <<instances, backendAvail, nextVm, event_handlers, delivered,
                   emitted, vmOps>>

\* the record becomes Stopped; Stopped is to be emitted
stop_store(t) ==
    /\ AtVm(t, "stop_store")
    /\ instances' = Put(instances, vmTasks[t].id, "Stopped")
    /\ VmGoto(t, [vmTasks[t] EXCEPT !.pc = "emit", !.res = "Ok", !.inserted = TRUE,
                    !.queue = <<VmEvent("Stopped", vmTasks[t].id)>>])
    /\ UNCHANGED <<inventory, backendAvail, nextVm, event_handlers, delivered,
                   emitted, vmOps>>

\* cleanup: the record is removed from the registry first
cleanup(t, id) ==
    /\ IdleVm(t)
    /\ VmBegin
    /\ instances' = Remove(instances, id)
    /\ lookup(t, [IdleVmTask EXCEPT !.op = "cleanup", !.id = id],
              id \in DOMAIN instances, "cleanup_backend")
    /\ UNCHANGED <<inventory, backendAvail, nextVm, event_handlers, delivered,
                   emitted>>

\* vm.backend.cleanup(&vm).await?  and then Ok(())
cleanup_backend(t) ==
    /\ AtVm(t, "cleanup_backend")
    /\ \E backend_ok \in BOOLEAN :
         /\ inventory' = IF backend_ok THEN inventory \ {vmTasks[t].id} ELSE inventory
         /\ VmReturn(t, [vmTasks[t] EXCEPT !.called = TRUE, !.acted = TRUE],
                     IF backend_ok THEN "Ok" ELSE "BackendError")
    /\ UNCHANGED <<instances, backendAvail, nextVm, event_handlers, delivered,
                   emitted, vmOps>>

\* list: the records of the registry if it has any; else the backend's list_vms,
\* each vortex- name as a Running instance
\* ids of VMs in the backend's list that were not made by generate_vm_id
ForeignIds == {0}

\* the name krunvm lists a VM under
VmName(id) == IF id \in ForeignIds THEN <<"other-", id>> ELSE <<"vortex-", id>>

\* str::starts_with
starts_with(name, prefix) == name[1] = prefix

\* list without the test of the name
list_unfiltered(t) ==
    /\ IdleVm(t)
    /\ VmBegin
    /\ LET task == [IdleVmTask EXCEPT !.op = "list"]
       IN IF DOMAIN instances # {}
          THEN VmReturn(t, [task EXCEPT !.listed = instances], "Ok")
          ELSE IF get_backend # "Ok" THEN VmReturn(t, task, get_backend)
          ELSE VmReturn(t, [task EXCEPT !.called = TRUE,
                               !.listed = [id \in inventory |-> "Running"]], "Ok")
    /\ UNCHANGED <<instances, inventory, backendAvail, nextVm, event_handlers,
                   delivered, emitted>>

list(t) ==
    /\ IdleVm(t)
    /\ VmBegin
    /\ LET task == [IdleVmTask EXCEPT !.op = "list"]
       IN IF DOMAIN instances # {}
          THEN VmReturn(t, [task EXCEPT !.listed = instances], "Ok")
          ELSE IF get_backend # "Ok" THEN VmReturn(t, task, get_backend)
          ELSE VmReturn(t, [task EXCEPT !.called = TRUE,
                               !.listed = [id \in {i \in inventory :
                                                     starts_with(VmName(i), "vortex-")}
                                             |-> "Running"]], "Ok")
    /\ UNCHANGED <<instances, inventory, backendAvail, nextVm, event_handlers,
                   delivered, emitted>>

\* a VM goes away outside the VmManager (its process exits, or krunvm delete is
\* run by hand): the backend's list no longer names it
backend_vm_gone(id) ==
    /\ id \in inventory
    /\ inventory' = inventory \ {id}
    /\ UNCHANGED <<instances, backendAvail, nextVm, vmTasks, event_handlers,
                   delivered, emitted, vmReturn, vmOps>>
    /\ VmApiOnly

\* add_event_handler: the write lock waits for the emit_event calls in progress;
\* fails says whether the handler's handle returns an error
add_event_handler(fails) ==
    /\ Len(event_handlers) < MaxHandlers
    /\ Emitting = {}
    /\ event_handlers' = Append(event_handlers, fails)
    /\ delivered' = Append(delivered, <<>>)
    /\ UNCHANGED <<vmVars, vmTasks, emitted, vmReturn, vmOps>>
    /\ VmApiOnly

\* emit_event(event): the read lock of event_handlers is taken
emit_event(t) ==
    /\ AtVm(t, "emit")
    /\ emitted' = Append(emitted, Head(vmTasks[t].queue))
    /\ VmGoto(t, [vmTasks[t] EXCEPT !.pc = "emit_loop", !.ev = Len(emitted) + 1,
                                    !.hidx = 1])
    /\ UNCHANGED <<vmVars, event_handlers, delivered, vmOps>>

\* the body of the loop: handler.handle(event.clone()).await; an Err is logged
emit_event_handle(t) ==
    /\ AtVm(t, "emit_loop")
    /\ vmTasks[t].hidx <= Len(event_handlers)
    /\ delivered' = [delivered EXCEPT ![vmTasks[t].hidx] = Append(@, vmTasks[t].ev)]
    /\ VmGoto(t, [vmTasks[t] EXCEPT !.hidx = @ + 1])
    /\ UNCHANGED <<vmVars, event_handlers, emitted, vmOps>>

\* the loop is over: Ok(()), and the caller goes on to its next event or returns
emit_event_return(t) ==
    /\ AtVm(t, "emit_loop")
    /\ vmTasks[t].hidx > Len(event_handlers)
    /\ LET event == Head(vmTasks[t].queue)
           task == [vmTasks[t] EXCEPT
                      !.queue = Tail(@), !.ev = 0, !.hidx = 0, !.emits = @ + 1,
                      !.terminal = IF event.kind \in TerminalEvents THEN @ + 1 ELSE @]
       IN IF task.queue = <<>> THEN VmReturn(t, task, task.res)
          ELSE VmGoto(t, [task EXCEPT !.pc = "emit"])
    /\ UNCHANGED <<vmVars, event_handlers, delivered, emitted, vmOps>>

InitVmApi ==
    /\ InitVm
    /\ ApiAtRest
    /\ SessionAtRest /\ MetricsAtRest /\ DaemonAtRest /\ ExtAtRest

VmTaskStep(t) ==
    \/ create_store(t) \/ create_backend(t) \/ create_ok(t) \/ create_err(t)
    \/ stop_backend(t) \/ stop_store(t)
    \/ cleanup_backend(t)
    \/ emit_event(t) \/ emit_event_handle(t) \/ emit_event_return(t)

VmCall(t) ==
    \/ list(t)
    \/ \E spec \in VmSpecs : create(t, spec)
    \/ \E id \in VmIds : stop(t, id) \/ cleanup(t, id)

NextVmApi ==
    \/ \E fails \in BOOLEAN : add_event_handler(fails)
    \/ \E id \in VmIds : backend_vm_gone(id)
    \/ \E t \in VmTasks : VmCall(t) \/ VmTaskStep(t)

SpecVm == InitVmApi /\ [][NextVmApi]_vars

\* The same VmManager, called with a spec above max_memory_per_vm.
VmCallCaps(t) ==
    \/ list(t)
    \/ \E spec \in CapSpecs : create(t, spec)
    \/ \E id \in VmIds : stop(t, id) \/ cleanup(t, id)

NextCaps ==
    \/ \E fails \in BOOLEAN : add_event_handler(fails)
    \/ \E id \in VmIds : backend_vm_gone(id)
    \/ \E t \in VmTasks : VmCallCaps(t) \/ VmTaskStep(t)

SpecCaps == InitVmApi /\ [][NextCaps]_vars

\* The VmManager next to a backend that also lists VMs made outside it
InitList ==
    /\ instances = EmptyMap
    /\ \E own \in SUBSET {1} : inventory = own \cup ForeignIds
    /\ backendAvail \in BOOLEAN
    /\ nextVm = 2
    /\ ApiAtRest
    /\ SessionAtRest /\ MetricsAtRest /\ DaemonAtRest /\ ExtAtRest

SpecList == InitList /\ [][NextVmApi]_vars

--------------------------------------------------------------------------
(* Claims about the VmManager *)

Handlers == 1..Len(event_handlers)

\* the i-th event handler h was handed
EventAt(h, i) == emitted[delivered[h][i]]

\* the events (numbers into emitted) handler h was handed
Handed(h) == {delivered[h][i] : i \in 1..Len(delivered[h])}

\* C5: validation gives one verdict per spec, and a create whose spec fails it
\* returns that verdict (InvalidInput or ResourceLimitExceeded) without a call to
\* the backend, without a registry record and without an event; no create with
\* such a spec gets past validation.
C5_InvalidSpecRejected ==
    /\ \A t \in VmTasks :
         vmTasks[t].op = "create" => validate_spec(vmTasks[t].spec) = "Ok"
    /\ (vmReturn.op = "create" /\ validate_spec(vmReturn.spec) # "Ok")
       => /\ vmReturn.res = validate_spec(vmReturn.spec)
          /\ vmReturn.res \in {"InvalidInput", "ResourceLimitExceeded"}
          /\ ~vmReturn.called
          /\ ~vmReturn.inserted
          /\ vmReturn.emits = 0

\* C6: when the backend's create has succeeded, the record create is about to move
\* to Running is still Creating; and every handler that is handed Created{id} was
\* handed no event of that id before it, and is handed Started{id} after it.
C6_CreatedThenStarted ==
    /\ \A t \in VmTasks :
         AtVm(t, "create_ok")
         => /\ vmTasks[t].id \in DOMAIN instances
            /\ instances[vmTasks[t].id] = "Creating"
    /\ \A h \in Handlers : \A i \in 1..Len(delivered[h]) :
         EventAt(h, i).kind = "Created"
         => \A j \in 1..Len(delivered[h]) :
              /\ (j < i => EventAt(h, j).vm_id # EventAt(h, i).vm_id)
              /\ (EventAt(h, j) = VmEvent("Started", EventAt(h, i).vm_id) => i < j)

\* C7: every completed create, stop or cleanup that got to the backend's create,
\* stop or cleanup has emitted exactly one terminal event (Started, Stopped or
\* Error), whether it succeeded or failed.
C7_OneTerminalEvent ==
    (vmReturn.op \in {"create", "stop", "cleanup"} /\ vmReturn.acted)
    => vmReturn.terminal = 1

\* C8: emit_event hands an event to the handlers one at a time in registration
\* order, whether or not a handler fails; the emitting operation does not fail
\* because of a handler; and any two handlers are handed the events of one VM in
\* the same order, the order they were emitted in.
C8_EmitEventOrder ==
    /\ \A t \in Emitting : \A h \in Handlers :
         (vmTasks[t].ev \in Handed(h)) <=> (h < vmTasks[t].hidx)
    /\ vmReturn.emits > 0
       => vmReturn.res = IF vmReturn.op = "create" /\ vmReturn.emits = 1
                         THEN "BackendError" ELSE "Ok"
    /\ \A h1 \in Handlers, h2 \in Handlers :
         \A i1 \in 1..Len(delivered[h1]), j1 \in 1..Len(delivered[h1]) :
           \A i2 \in 1..Len(delivered[h2]), j2 \in 1..Len(delivered[h2]) :
             (/\ i1 < j1 /\ i2 < j2
              /\ EventAt(h1, i1).vm_id = EventAt(h1, j1).vm_id
              /\ EventAt(h1, i1).kind # EventAt(h1, j1).kind
              /\ delivered[h1][i1] = delivered[h2][j2])
             => delivered[h1][j1] # delivered[h2][i2]

--------------------------------------------------------------------------
(* MetricsCollector (vortex-core/src/metrics.rs): handle, record_vm_metrics,  *)
(* update_system_metrics and the getters, as the lock operations each one     *)
(* performs in turn.  A task's record holds the operations it has still to do *)
(* (todo); the task waits at an acquire until the lock can be granted.        *)

MetricVmIds == {1, 2}

\* lock.write().await / lock.read().await, and what is done once it is granted
Acquire(mode, lock, effect) ==
    [kind |-> "acquire", mode |-> mode, lock |-> lock, effect |-> effect]

\* the guards of these locks go out of scope
Release(held) == [kind |-> "release", locks |-> held]

\* update_system_metrics: vm_metrics.read(), system_metrics.write(), the totals;
\* both guards are dropped at the end of the function
update_system_metrics ==
    <<Acquire("read", "vm_metrics", "none"),
      Acquire("write", "system_metrics", "totals"),
      Release({"system_metrics", "vm_metrics_read"})>>

\* record_vm_metrics: vm_metrics.write(), insert, update_system_metrics(), and the
\* write guard is dropped at the end of the function
record_vm_metrics_body ==
    <<Acquire("write", "vm_metrics", "insert")>>
    \o update_system_metrics
    \o <<Release({"vm_metrics_write"})>>

\* the arms of the match in handle
handle_body(event) ==
    IF event.kind = "Stopped"
    THEN <<Acquire("write", "vm_metrics", "remove")>>
         \o update_system_metrics
         \o <<Release({"vm_metrics_write"})>>
    ELSE IF event.kind = "ResourceUsage" THEN record_vm_metrics_body
    ELSE <<>>

get_vm_metrics_body == <<Acquire("read", "vm_metrics", "none"),
                         Release({"vm_metrics_read"})>>

get_system_metrics_body == <<Acquire("read", "system_metrics", "none"),
                             Release({"system_metrics_read"})>>

MetricEvents ==
    {VmEvent(kind, id) : kind \in {"Created", "Stopped", "ResourceUsage"},
                         id \in MetricVmIds}

\* tokio's RwLock: any number of readers or one writer; it is not reentrant
CanAcquire(t, mode, lock) ==
    IF mode = "write"
    THEN locks[lock].writer = 0 /\ locks[lock].readers = {}
    ELSE locks[lock].writer = 0

\* the locks task t holds
Holds(t) ==
    {l \in {"vm_metrics", "system_metrics"} :
        locks[l].writer = t \/ t \in locks[l].readers}

\* a call of the collector by task t
MetricCall(t, op, event, todo) ==
    /\ mTasks[t].pc = "idle"
    /\ mCalls < MaxMetricCalls
    /\ mCalls' = mCalls + 1
    /\ mTasks' = [mTasks EXCEPT ![t] = [pc |-> "running", op |-> op,
                                        event |-> event, todo |-> todo]]
    /\ UNCHANGED <<vm_metrics, system_metrics, locks>>
    /\ MetricsOnly

handle(t, event) == MetricCall(t, "handle", event, handle_body(event))

record_vm_metrics(t, id) ==
    MetricCall(t, "record_vm_metrics", VmEvent("none", id), record_vm_metrics_body)

get_vm_metrics(t, id) ==
    MetricCall(t, "get_vm_metrics", VmEvent("none", id), get_vm_metrics_body)

get_system_metrics(t) ==
    MetricCall(t, "get_system_metrics", VmEvent("none", 0), get_system_metrics_body)

\* the lock task t waits for is granted, and the statements up to the next lock
\* operation run
lock_acquire(t) ==
    /\ mTasks[t].pc = "running"
    /\ mTasks[t].todo # <<>>
    /\ LET next == Head(mTasks[t].todo)
       IN /\ next.kind = "acquire"
          /\ CanAcquire(t, next.mode, next.lock)
          /\ locks' = [locks EXCEPT ![next.lock] =
                         IF next.mode = "write" THEN [@ EXCEPT !.writer = t]
                         ELSE [@ EXCEPT !.readers = @ \cup {t}]]
          /\ vm_metrics' = IF next.effect = "insert"
                           THEN vm_metrics \cup {mTasks[t].event.vm_id}
                           ELSE IF next.effect = "remove"
                           THEN vm_metrics \ {mTasks[t].event.vm_id}
                           ELSE vm_metrics
          /\ system_metrics' = IF next.effect = "totals" THEN Cardinality(vm_metrics)
                               ELSE system_metrics
    /\ mTasks' = [mTasks EXCEPT ![t].todo = Tail(@)]
    /\ UNCHANGED mCalls
    /\ MetricsOnly

\* guards go out of scope
lock_release(t) ==
    /\ mTasks[t].pc = "running"
    /\ mTasks[t].todo # <<>>
    /\ LET next == Head(mTasks[t].todo)
       IN /\ next.kind = "release"
          /\ locks' = [l \in DOMAIN locks |->
                         [writer |-> IF locks[l].writer = t
                                        /\ (l = "system_metrics"
                                            \/ "vm_metrics_write" \in next.locks)
                                     THEN 0 ELSE locks[l].writer,
                          readers |-> locks[l].readers \ {t}]]
    /\ mTasks' = [mTasks EXCEPT ![t].todo = Tail(@)]
    /\ UNCHANGED <<vm_metrics, system_metrics, mCalls>>
    /\ MetricsOnly

\* the call returns
metric_return(t) ==
    /\ mTasks[t].pc = "running"
    /\ mTasks[t].todo = <<>>
    /\ mTasks' = [mTasks EXCEPT ![t] = IdleMetricTask]
    /\ UNCHANGED <<vm_metrics, system_metrics, locks, mCalls>>
    /\ MetricsOnly

InitMetrics ==
    /\ MetricsAtRest
    /\ SessionAtRest /\ VmAtRest /\ ApiAtRest /\ DaemonAtRest /\ ExtAtRest

MetricTaskStep(t) == lock_acquire(t) \/ lock_release(t) \/ metric_return(t)

NextMetrics ==
    \E t \in MetricTasks :
        \/ \E event \in MetricEvents : handle(t, event)
        \/ \E id \in MetricVmIds : record_vm_metrics(t, id) \/ get_vm_metrics(t, id)
        \/ get_system_metrics(t)
        \/ MetricTaskStep(t)

\* every task that can take a step is scheduled
SpecMetrics ==
    InitMetrics /\ [][NextMetrics]_vars
    /\ \A t \in MetricTasks : WF_vars(MetricTaskStep(t))

\* C9: every call of handle and of record_vm_metrics returns, and a task that is
\* not inside the collector holds none of its locks.
C9_HandleReturns ==
    \A t \in MetricTasks :
        /\ [](mTasks[t].pc = "idle" => Holds(t) = {})
        /\ [](mTasks[t].op \in {"handle", "record_vm_metrics"}
              => <>(mTasks[t].pc = "idle"))

--------------------------------------------------------------------------
(* VortexDaemon (src/core/daemon.rs): start with its accept loop, and         *)
(* handle_connection, one task per accepted connection.                       *)

DaemonCommands == {"Ping", "Shutdown"}

\* what a client can put on a line: a command, JSON that is no command, a line
\* of white space, bytes that are not UTF-8
DaemonLines == DaemonCommands \cup {"Invalid", "Empty", "BadUtf8"}

\* start, up to the loop: the socket is bound and the flag is set
start ==
    /\ acceptLoop = "off"
    /\ socketFile' = TRUE
    /\ running' = TRUE
    /\ acceptLoop' = "check"
    /\ UNCHANGED conns
    /\ DaemonOnly

\* while *self.running.read().await
accept_loop_check ==
    /\ acceptLoop = "check"
    /\ acceptLoop' = IF running THEN "accept" ELSE "cleanup"
    /\ UNCHANGED <<running, socketFile, conns>>
    /\ DaemonOnly

\* listener.accept().await returns a connection, and its task is spawned
accept(c) ==
    /\ acceptLoop = "accept"
    /\ conns[c].pc = "pending"
    /\ conns' = [conns EXCEPT ![c].pc = "read"]
    /\ acceptLoop' = "check"
    /\ UNCHANGED <<running, socketFile>>
    /\ DaemonOnly

\* listener.accept().await returns an error: break
accept_error ==
    /\ acceptLoop = "accept"
    /\ acceptLoop' = "cleanup"
    /\ UNCHANGED <<running, socketFile, conns>>
    /\ DaemonOnly

\* after the loop: the socket file is removed and start returns
remove_socket ==
    /\ acceptLoop = "cleanup"
    /\ socketFile' = FALSE
    /\ acceptLoop' = "done"
    /\ UNCHANGED <<running, conns>>
    /\ DaemonOnly

\* a client connects to the socket
connect(c) ==
    /\ acceptLoop \in {"check", "accept"}
    /\ conns[c].pc = "none"
    /\ conns' = [conns EXCEPT ![c].pc = "pending"]
    /\ UNCHANGED <<running, acceptLoop, socketFile>>
    /\ DaemonOnly

\* a client writes a line: read_line returns Err for bytes that are not UTF-8
\* (break), the loop continues on a line that trims to nothing, and any other
\* line goes to serde_json::from_str
read_line(c, line) ==
    /\ conns[c].pc = "read"
    /\ conns[c].sent < MaxRequests
    /\ conns' = [conns EXCEPT
           ![c].sent = @ + 1,
           ![c].reqs = IF line = "Empty" THEN @ ELSE Append(@, line),
           ![c].cmd = IF line \in {"Empty", "BadUtf8"} THEN @ ELSE line,
           ![c].pc = IF line = "Empty" THEN "read"
                     ELSE IF line = "BadUtf8" THEN "closed" ELSE "command",
           ![c].closedBy = IF line = "BadUtf8" THEN "read_error" ELSE @]
    /\ UNCHANGED <<running, acceptLoop, socketFile>>
    /\ DaemonOnly

\* a client closes its connection; read_line returns Ok(0)
read_eof(c) ==
    /\ conns[c].pc = "read"
    /\ conns' = [conns EXCEPT ![c].pc = "closed", ![c].closedBy = "eof"]
    /\ UNCHANGED <<running, acceptLoop, socketFile>>
    /\ DaemonOnly

\* the connection is reset: read_line returns an I/O error
read_error(c) ==
    /\ conns[c].pc = "read"
    /\ conns' = [conns EXCEPT ![c].pc = "closed", ![c].closedBy = "io_error"]
    /\ UNCHANGED <<running, acceptLoop, socketFile>>
    /\ DaemonOnly

\* the Shutdown arm: the flag is set false under its write lock
handle_shutdown(c) ==
    /\ conns[c].pc = "command"
    /\ conns[c].cmd = "Shutdown"
    /\ running' = FALSE
    /\ conns' = [conns EXCEPT ![c].pc = "respond", ![c].resp = "Success"]
    /\ UNCHANGED <<acceptLoop, socketFile>>
    /\ DaemonOnly

\* any other command goes to the session manager, whose error becomes an
\* Error response
handle_command(c) ==
    /\ conns[c].pc = "command"
    /\ conns[c].cmd \notin {"Shutdown", "Invalid"}
    /\ \E resp \in {"Result", "Error"} :
         conns' = [conns EXCEPT ![c].pc = "respond", ![c].resp = resp]
    /\ UNCHANGED <<running, acceptLoop, socketFile>>
    /\ DaemonOnly

\* the Err arm of serde_json::from_str: "Invalid command: ..."
handle_invalid(c) ==
    /\ conns[c].pc = "command"
    /\ conns[c].cmd = "Invalid"
    /\ conns' = [conns EXCEPT ![c].pc = "respond", ![c].resp = "Error"]
    /\ UNCHANGED <<running, acceptLoop, socketFile>>
    /\ DaemonOnly

\* writer.write_all(response)
write_response(c) ==
    /\ conns[c].pc = "respond"
    /\ conns' = [conns EXCEPT ![c].pc = "read", ![c].answered = conns[c].cmd,
                   ![c].resps = Append(@, [req |-> Len(conns[c].reqs),
                                           kind |-> conns[c].resp])]
    /\ UNCHANGED <<running, acceptLoop, socketFile>>
    /\ DaemonOnly

\* writer.write_all fails (the client is gone): break
write_error(c) ==
    /\ conns[c].pc = "respond"
    /\ conns' = [conns EXCEPT ![c].pc = "closed", ![c].closedBy = "write_error"]
    /\ UNCHANGED <<running, acceptLoop, socketFile>>
    /\ DaemonOnly

InitDaemon ==
    /\ DaemonAtRest
    /\ SessionAtRest /\ VmAtRest /\ ApiAtRest /\ MetricsAtRest /\ ExtAtRest

\* what the daemon's own tasks do once they can
DaemonStep ==
    \/ start
    \/ accept_loop_check
    \/ \E c \in Conns : accept(c)
    \/ remove_socket
    \/ \E c \in Conns : handle_shutdown(c) \/ handle_command(c) \/ handle_invalid(c)
    \/ \E c \in Conns : write_response(c)

\* what clients and the operating system do
ClientStep ==
    \/ accept_error
    \/ \E c \in Conns : connect(c) \/ read_eof(c) \/ read_error(c) \/ write_error(c)
    \/ \E c \in Conns, line \in DaemonLines : read_line(c, line)

NextDaemon == DaemonStep \/ ClientStep

\* the daemon's tasks are scheduled; no client has to do anything
SpecDaemon == InitDaemon /\ [][NextDaemon]_vars /\ WF_vars(DaemonStep)

ShutdownAnswered == \E c \in Conns : conns[c].answered = "Shutdown"

\* C10: the running flag is false when the response to Shutdown is written, and
\* once that response is written the accept loop exits and the socket file is
\* removed, whether or not another client connects.
C10_ShutdownStopsDaemon ==
    /\ [](\A c \in Conns :
            (conns[c].pc = "respond" /\ conns[c].cmd = "Shutdown") => ~running)
    /\ [](ShutdownAnswered => <>(acceptLoop = "done" /\ ~socketFile))

--------------------------------------------------------------------------
(* C11: an attach blocked in the backend holds no lock *)

\* every command the run still has budget for can begin on the idle task u
CanBegin(u) ==
    /\ ENABLED list_sessions(u)
    /\ (nextSess <= 1 + MaxNewSessions /\ VmIdsLeft)
           => ENABLED create_session(u, GoodSpec, FALSE)
    /\ \A sid \in SessIds :
         /\ ENABLED get_session(u, sid)
         /\ ENABLED delete_session(u, sid)
         /\ ENABLED stop_session(u, sid)
         /\ ENABLED pause_session(u, sid)
         /\ ENABLED resume_session(u, sid)
         /\ ENABLED attach_session(u, sid)
         /\ ENABLED detach_session(u, sid)
         /\ VmIdsLeft => ENABLED start_session(u, sid) /\ ENABLED restart_session(u, sid)

--------------------------------------------------------------------------
(* C12: one response per request line, in order *)

\* the request lines of connection c that have been answered or given up
Settled(c) ==
    Len(conns[c].reqs) - (IF conns[c].pc \in {"command", "respond"} THEN 1 ELSE 0)

\* C12: on each connection whose writes succeed, every non-empty request line
\* read so far has exactly one response, the i-th response answers the i-th
\* request (so request k+1 is not processed before response k is written), a
\* line that is no valid command is answered Error with the connection left
\* open; and the accept loop leaves its loop only on an accept error or on the
\* running flag, never because a connection failed.
C12_OneResponsePerLine ==
    /\ [](\A c \in Conns :
            /\ conns[c].closedBy # "write_error" => Len(conns[c].resps) = Settled(c)
            /\ \A i \in 1..Len(conns[c].resps) :
                 /\ conns[c].resps[i].req = i
                 /\ conns[c].reqs[i] \notin DaemonCommands
                        => conns[c].resps[i].kind = "Error")
    /\ [][(acceptLoop \in {"check", "accept"} /\ acceptLoop' = "cleanup")
            => (conns' = conns /\ (acceptLoop = "check" => ~running))]_vars

--------------------------------------------------------------------------
(* C13: startup reconciliation *)

--------------------------------------------------------------------------
(* C14: a live session's vm_id names one VmInstance *)

\* the sessions whose state is neither Stopped nor Error
LiveSessions == {s \in DOMAIN sessions : sessions[s].state \notin {"Stopped", "Error"}}

\* C14: once the daemon is up, every session that is not Stopped or Error has a
\* vm_id that is the id of a VmInstance of the registry, and no two such
\* sessions have the same vm_id.
C14_VmIdInRegistry ==
    phase = "up" =>
        \A s \in LiveSessions :
            /\ sessions[s].vm_id \in DOMAIN instances
            /\ \A s2 \in LiveSessions : sessions[s2].vm_id = sessions[s].vm_id => s2 = s

--------------------------------------------------------------------------
(* C15: a Running record has its VM in the backend *)

\* C15: when a call of VmManager::list returns, every record of the registry
\* that is Running has its id in the backend inventory: a record whose VM has
\* gone from the backend has been moved out of Running by then.
C15_RunningIsInInventory ==
    [][(vmOps' # vmOps /\ vmReturn'.op = "list" /\ vmReturn'.res = "Ok") =>
         \A id \in DOMAIN instances' :
             instances'[id] = "Running" => id \in inventory']_vars

--------------------------------------------------------------------------
(* C16: operations on one VM id are serialized *)

\* C16: once cleanup(id) has returned Ok, and until another call returns, the
\* registry holds no record for id, whatever create or stop of that id was in
\* flight: the outcome any serial order of the calls gives.
C16_CleanupRemoves ==
    (vmReturn.op = "cleanup" /\ vmReturn.res = "Ok") => vmReturn.id \notin DOMAIN instances

--------------------------------------------------------------------------
(* C17: stop is idempotent *)

\* C17: a stop of a VM whose record is already Stopped returns Ok and is a
\* no-op: the backend is not called again, the record is not rewritten and no
\* event is emitted.
C17_StopIdempotent ==
    (vmReturn.op = "stop" /\ vmReturn.vmstate = "Stopped") =>
        /\ vmReturn.res = "Ok"
        /\ ~vmReturn.acted
        /\ ~vmReturn.inserted
        /\ vmReturn.emits = 0

--------------------------------------------------------------------------
(* C18: delete_session of an unknown id, and twice of a known one *)

\* C18: a delete_session answers 'not found' exactly when the id is not in the
\* map, and then leaves the map and the sessions file as they are; a
\* delete_session of an id of the map returns Ok, or the persistence error of
\* its save, whatever the session's state and the outcome of the VM cleanup;
\* and once it has returned Ok the id is not in the map, so that a second
\* delete_session of it answers 'not found'.
C18_DeleteTwice ==
    /\ [][(commands' # commands /\ lastReturn'.op = "delete") =>
            /\ lastReturn'.res = "not_found"
            /\ lastReturn'.sid \notin DOMAIN sessions
            /\ sessions' = sessions /\ file' = file /\ fileState' = fileState]_vars
    /\ [](lastReturn.op = "delete" => lastReturn.res \in {"ok", "not_found", "persist_err"})
    /\ []((lastReturn.op = "delete" /\ lastReturn.res = "ok")
             => lastReturn.sid \notin DOMAIN sessions)

--------------------------------------------------------------------------
(* C19: start_session re-creates the VM of a Stopped or Error session only *)

StartOps == {"start", "restart"}

\* C19: a start_session calls VmManager::create only for a session that is
\* Stopped or Error; when it writes its result the session gets the id of the
\* VM just created, different from the one it had, and the state Detached, and
\* that is what the map shows when start_session returns Ok; for a session in
\* any other state, start_session returns at once (Ok from Running, Detached and
\* Attached, an error from Creating and Paused) with no VM created and the map
\* unchanged.
C19_StartRecreates ==
    /\ [][\A t \in Tasks :
            (tasks[t].pc = "start_vm" /\ tasks'[t].pc # "start_vm") =>
                /\ tasks[t].sid \in DOMAIN sessions
                /\ sessions[tasks[t].sid].state \in {"Stopped", "Error"}]_vars
    /\ [][\A t \in Tasks :
            (tasks[t].pc = "start_insert" /\ tasks'[t].pc # "start_insert") =>
                /\ sessions'[tasks[t].sid].vm_id = tasks[t].newvm
                /\ tasks[t].sid \in DOMAIN sessions
                /\ sessions[tasks[t].sid].vm_id # tasks[t].newvm
                /\ sessions'[tasks[t].sid].state = "Detached"]_vars
    /\ []((lastReturn.op \in StartOps /\ lastReturn.res = "ok") =>
             /\ lastReturn.sid \in DOMAIN sessions
             /\ sessions[lastReturn.sid].state = "Detached")
    /\ [][(commands' # commands /\ lastReturn'.op = "start"
           /\ lastReturn'.res # "not_found") =>
             /\ lastReturn'.res = IF sessions[lastReturn'.sid].state
                                       \in {"Running", "Detached", "Attached"}
                                  THEN "noop" ELSE "state_err"
             /\ sessions[lastReturn'.sid].state \notin {"Stopped", "Error"}
             /\ sessions' = sessions
             /\ instances' = instances /\ nextVm' = nextVm]_vars

--------------------------------------------------------------------------
(* C20: the stale-session cleanup deletes what is older than 24 hours *)

\* a non-persistent Detached session last attached more than 24 hours ago
OlderThan24h(session) ==
    /\ ~session.persistent
    /\ session.state = "Detached"
    /\ session.last_attached # Null
    /\ now - session.last_attached > 24 * 60

\* C20: a run of cleanup_stale_sessions takes every non-persistent Detached
\* session whose last_attached is more than 24 hours (1440 minutes) old, and
\* each session it takes is removed from the map, so that get_session answers
\* 'not found' for it.
C20_StaleDeleted ==
    /\ [][\A t \in Tasks :
            (tasks[t].pc = "idle" /\ tasks'[t].op = "cleanup_stale") =>
                \A s \in DOMAIN sessions :
                    OlderThan24h(sessions[s]) => s \in tasks'[t].todo]_vars
    /\ [][\A t \in Tasks :
            (tasks[t].op = "cleanup_stale" /\ tasks[t].pc = "stale_next"
             /\ tasks'[t].pc = "delete_cleanup") =>
                tasks'[t].sid \notin DOMAIN sessions']_vars


--------------------------------------------------------------------------
(* Daemon processes on one socket path, and the auto-spawn client           *)
(* (daemon.rs: VortexDaemon::new, start; DaemonClient).  A process builds    *)
(* its SessionManager, then its VortexDaemon, then runs start.               *)

\* the loop of start_daemon_if_needed: for _ in 0..10
MaxPings == 10
\* tokio::time::sleep(Duration::from_millis(500))
SleepMs == 500

DaemonSet(pc, d) == daemons' = [daemons EXCEPT ![d] = pc]

LaunchOnly == UNCHANGED <<sessVars, vmVars, apiVars, metVars, dVars, tplVars, imgVars, wsVars>>

\* a daemon is started by hand (process 1): its SessionManager is being built
daemon_started(d) ==
    /\ d = 1 /\ daemons[d] = "off"
    /\ DaemonSet("manager", d)
    /\ UNCHANGED <<sockPath, client>> /\ LaunchOnly

\* SessionManager::new: load, reconcile and save the sessions file, or fail
SessionManager_built(d) ==
    /\ daemons[d] = "manager"
    /\ \E ok \in BOOLEAN : DaemonSet(IF ok THEN "new" ELSE "exited", d)
    /\ UNCHANGED <<sockPath, client>> /\ LaunchOnly

\* VortexDaemon::new: an existing socket file is removed, whoever it belongs to
VortexDaemon_new(d) ==
    /\ daemons[d] = "new"
    /\ IF sockPath # 0
       THEN \E ok \in BOOLEAN :
              /\ sockPath' = IF ok THEN 0 ELSE sockPath
              /\ DaemonSet(IF ok THEN "bind" ELSE "exited", d)
       ELSE sockPath' = sockPath /\ DaemonSet("bind", d)
    /\ UNCHANGED client /\ LaunchOnly

\* start: UnixListener::bind creates the file, or fails when the path exists
VortexDaemon_bind(d) ==
    /\ daemons[d] = "bind"
    /\ IF sockPath = 0
       THEN sockPath' = d /\ DaemonSet("serving", d)
       ELSE sockPath' = sockPath /\ DaemonSet("exited", d)
    /\ UNCHANGED client /\ LaunchOnly

\* the accept loop ends: running is false, or accept failed
VortexDaemon_loop_exit(d) ==
    /\ daemons[d] = "serving"
    /\ DaemonSet("cleanup", d)
    /\ UNCHANGED <<sockPath, client>> /\ LaunchOnly

\* the end of start: if self.socket_path.exists() { remove_file }
VortexDaemon_cleanup(d) ==
    /\ daemons[d] = "cleanup"
    /\ \E ok \in BOOLEAN : sockPath' = IF sockPath # 0 /\ ok THEN 0 ELSE sockPath
    /\ DaemonSet("exited", d)
    /\ UNCHANGED client /\ LaunchOnly

\* the process is killed while it serves: the socket file stays
daemon_killed(d) ==
    /\ daemons[d] = "serving"
    /\ DaemonSet("exited", d)
    /\ UNCHANGED <<sockPath, client>> /\ LaunchOnly

\* is_running: connect to the path, send Ping, read the response.  A response
\* comes from the process whose listener the file names, while it accepts.
is_running == sockPath # 0 /\ daemons[sockPath] = "serving"

ClientDone(res) == [client EXCEPT !.pc = "done", !.res = res]

\* start_daemon_if_needed, up to the first Ping: DaemonClient::new()?
start_daemon_if_needed ==
    /\ client.pc = "none"
    /\ \E ok \in BOOLEAN :
         client' = IF ok THEN [client EXCEPT !.pc = "first_ping"]
                   ELSE ClientDone("env_err")
    /\ UNCHANGED <<daemons, sockPath>> /\ LaunchOnly

\* if client.is_running().await { return Ok(()) }
first_ping ==
    /\ client.pc = "first_ping"
    /\ client' = IF is_running
                 THEN [ClientDone("Ok") EXCEPT !.pings = client.pings + 1]
                 ELSE [client EXCEPT !.pc = "spawn", !.pings = client.pings + 1]
    /\ UNCHANGED <<daemons, sockPath>> /\ LaunchOnly

\* current_exe()? and Command::new(current_exe) ... .spawn()?: process 2 starts
spawn ==
    /\ client.pc = "spawn"
    /\ \E ok \in BOOLEAN :
         IF ok /\ daemons[2] = "off"
         THEN /\ DaemonSet("manager", 2)
              /\ client' = [client EXCEPT !.pc = "sleep", !.spawns = client.spawns + 1]
         ELSE /\ daemons' = daemons
              /\ client' = ClientDone("spawn_err")
    /\ UNCHANGED sockPath /\ LaunchOnly

\* tokio::time::sleep(Duration::from_millis(500)).await
sleep ==
    /\ client.pc = "sleep"
    /\ client' = [client EXCEPT !.pc = "ping", !.slept = client.slept + SleepMs]
    /\ UNCHANGED <<daemons, sockPath>> /\ LaunchOnly

\* a loop that never gives up
ping_forever ==
    /\ client.pc = "ping"
    /\ client' = IF is_running
                 THEN [ClientDone("Ok") EXCEPT !.pings = client.pings + 1]
                 ELSE [client EXCEPT !.pc = "sleep",
                                     !.pings = IF client.pings < MaxPings
                                               THEN client.pings + 1
                                               ELSE client.pings]
    /\ UNCHANGED <<daemons, sockPath>> /\ LaunchOnly

\* the Ping of the loop; after the last one, the timeout error
ping ==
    /\ client.pc = "ping"
    /\ client' = IF is_running
                 THEN [ClientDone("Ok") EXCEPT !.pings = client.pings + 1]
                 ELSE IF client.pings + 1 = 1 + MaxPings
                 THEN [ClientDone("timeout") EXCEPT !.pings = client.pings + 1]
                 ELSE [client EXCEPT !.pc = "sleep", !.pings = client.pings + 1]
    /\ UNCHANGED <<daemons, sockPath>> /\ LaunchOnly

ClientCallStep == first_ping \/ spawn \/ sleep \/ ping

InitLaunch ==
    /\ ExtAtRest
    /\ SessionAtRest /\ VmAtRest /\ ApiAtRest /\ MetricsAtRest /\ DaemonAtRest

NextLaunch ==
    \/ \E d \in DaemonIds :
         \/ daemon_started(d) \/ SessionManager_built(d)
         \/ VortexDaemon_new(d) \/ VortexDaemon_bind(d)
         \/ VortexDaemon_loop_exit(d) \/ VortexDaemon_cleanup(d)
         \/ daemon_killed(d)
    \/ start_daemon_if_needed
    \/ ClientCallStep

\* the client's task is scheduled whatever the daemons do
SpecLaunch == InitLaunch /\ [][NextLaunch]_vars /\ WF_vars(ClientCallStep)

--------------------------------------------------------------------------
(* DevEnvironmentManager (templates.rs), WorkspaceManager::workspace_to_vm_spec *)
(* (workspace.rs) and the two VortexCore calls that create a VM from them      *)
(* (mod.rs).                                                                   *)

\* str::contains(char)
contains(command, ch) == \E i \in DOMAIN command : command[i] = ch

\* the test without the carriage return
has_metacharacter_without_cr(command) ==
    \/ contains(command, "&")
    \/ contains(command, "|")
    \/ contains(command, ";")
    \/ contains(command, "backtick")
    \/ contains(command, "$")
    \/ contains(command, "(")
    \/ contains(command, ")")
    \/ contains(command, "<")
    \/ contains(command, ">")
    \/ contains(command, "newline")

\* the test of template_to_vm_spec on one startup command
has_metacharacter(command) ==
    \/ contains(command, "&")
    \/ contains(command, "|")
    \/ contains(command, ";")
    \/ contains(command, "backtick")
    \/ contains(command, "$")
    \/ contains(command, "(")
    \/ contains(command, ")")
    \/ contains(command, "<")
    \/ contains(command, ">")
    \/ contains(command, "newline")
    \/ contains(command, "cr")

AndAnd == <<" ", "&", "&", " ">>

\* [String]::join(" && ")
RECURSIVE join(_)
join(startup_commands) ==
    IF Len(startup_commands) = 0 THEN <<>>
    ELSE IF Len(startup_commands) = 1 THEN startup_commands[1]
    ELSE startup_commands[1] \o AndAnd \o join(Tail(startup_commands))

\* format!("mkdir -p {} && cd {} && {} && echo '...' && exec bash", ...)
template_command(workdir, setup_commands) ==
    <<"mkdir -p ", workdir>> \o AndAnd \o <<"cd ", workdir>> \o AndAnd
      \o setup_commands \o AndAnd \o <<"echo">> \o AndAnd \o <<"exec bash">>

\* format!("cd {} && {} && echo '...' && exec bash", ...)
workspace_command(workdir, setup_commands) ==
    <<"cd ", workdir>> \o AndAnd \o setup_commands \o AndAnd \o <<"echo">>
      \o AndAnd \o <<"exec bash">>

TplResult(res, field, command) == [res |-> res, field |-> field, command |-> command]

\* template_to_vm_spec(template_name, custom_workdir): the error, or the command
\* of the spec
template_to_vm_spec(template_name, workdir) ==
    IF template_name \notin DOMAIN templates
    THEN TplResult("TemplateNotFound", "none", <<>>)
    ELSE LET template == templates[template_name]
         IN IF \E i \in DOMAIN template.startup_commands :
                   has_metacharacter(template.startup_commands[i])
            THEN TplResult("InvalidInput", "startup_commands", <<>>)
            ELSE IF ~template.ports_ok
            THEN TplResult("InvalidInput", "ports", <<>>)
            ELSE TplResult("Ok", "none",
                           template_command(workdir, join(template.startup_commands)))

\* workspace_to_vm_spec(workspace, base_template): always Ok(spec)
workspace_to_vm_spec(custom_commands, base_template) ==
    TplResult("Ok", "none",
              workspace_command("/workspace",
                                join(base_template.startup_commands \o custom_commands)))

\* extract_commands(devcontainer): postCreateCommand, then postStartCommand
extract_commands(post_create, post_start) ==
    (IF post_create = <<>> THEN <<>> ELSE <<post_create>>)
      \o (IF post_start = <<>> THEN <<>> ELSE <<post_start>>)

\* the spec the two conversions build: memory 2048, cpus 2, default limits
DevSpec == [memory |-> 2048, cpus |-> 2, max_memory |-> Null]

TplBegin ==
    /\ tplOps < MaxTplOps
    /\ tplOps' = tplOps + 1

TplOnly == UNCHANGED <<sessVars, apiVars, metVars, dVars, launchVars, imgVars, wsVars>>

TplReturn(op, name, r) ==
    tplReturn' = [op |-> op, name |-> name, res |-> r.res, field |-> r.field,
                  command |-> r.command, template |-> Null]

get_template(name) ==
    /\ TplBegin
    /\ TplReturn("get_template", name,
                 TplResult(IF name \in DOMAIN templates THEN "Some" ELSE "None",
                           "none", <<>>))
    /\ UNCHANGED <<templates, vmVars>> /\ TplOnly

list_templates ==
    /\ TplBegin
    /\ TplReturn("list_templates", "none", TplResult("Ok", "none", <<>>))
    /\ UNCHANGED <<templates, vmVars>> /\ TplOnly

call_template_to_vm_spec(name) ==
    /\ TplBegin
    /\ TplReturn("template_to_vm_spec", name, template_to_vm_spec(name, "/workspace"))
    /\ UNCHANGED <<templates, vmVars>> /\ TplOnly

\* VortexCore::create_dev_environment: template_to_vm_spec(...)? and then
\* vm_manager.create(spec)
create_dev_environment(name) ==
    /\ TplBegin
    /\ nextVm <= 1 + MaxNewVms
    /\ LET r == template_to_vm_spec(name, "/workspace")
       IN IF r.res # "Ok"
          THEN TplReturn("create_dev_environment", name, r) /\ UNCHANGED vmVars
          ELSE \E backend_ok \in BOOLEAN :
                 LET v == vm_create(DevSpec, backend_ok)
                 IN /\ VmApply(v)
                    /\ TplReturn("create_dev_environment", name,
                                 [r EXCEPT !.res = v.res])
    /\ UNCHANGED templates /\ TplOnly

\* VortexCore::create_workspace_vm for a workspace that exists: get_template,
\* workspace_to_vm_spec, touch_workspace, vm_manager.create(spec)
create_workspace_vm(template_name, custom_commands) ==
    /\ TplBegin
    /\ nextVm <= 1 + MaxNewVms
    /\ IF template_name \notin DOMAIN templates
       THEN /\ TplReturn("create_workspace_vm", template_name,
                         TplResult("TemplateNotFound", "none", <<>>))
            /\ UNCHANGED vmVars
       ELSE LET r == workspace_to_vm_spec(custom_commands, templates[template_name])
            IN \E touched \in BOOLEAN, backend_ok \in BOOLEAN :
                 IF ~touched
                 THEN /\ TplReturn("create_workspace_vm", template_name,
                                   [r EXCEPT !.res = "Io"])
                      /\ UNCHANGED vmVars
                 ELSE LET v == vm_create(DevSpec, backend_ok)
                      IN /\ VmApply(v)
                         /\ TplReturn("create_workspace_vm", template_name,
                                      [r EXCEPT !.res = v.res])
    /\ UNCHANGED templates /\ TplOnly

\* HashMap::insert(name, template)
insert(name, template) ==
    [n \in DOMAIN templates \cup {name} |-> IF n = name THEN template ELSE templates[n]]

\* the call and its argument, for the properties
TemplateReturn(name, template, res) ==
    tplReturn' = [NoTplReturn EXCEPT !.op = "create_custom_template", !.name = name,
                                     !.res = res, !.template = template]

\* create_custom_template without the contains_key test
create_custom_template_overwriting(name, template) ==
    /\ TplBegin
    /\ templates' = insert(name, template)
    /\ TemplateReturn(name, template, "Ok")
    /\ UNCHANGED vmVars /\ TplOnly

create_custom_template(name, template) ==
    /\ TplBegin
    /\ IF name \in DOMAIN templates
       THEN /\ templates' = templates
            /\ TemplateReturn(name, template, "TemplateExists")
       ELSE /\ templates' = insert(name, template)
            /\ TemplateReturn(name, template, "Ok")
    /\ UNCHANGED vmVars /\ TplOnly

InitTemplates ==
    /\ ExtAtRest
    /\ SessionAtRest /\ VmAtRest /\ ApiAtRest /\ MetricsAtRest /\ DaemonAtRest

NextTemplates ==
    \/ list_templates
    \/ \E name \in TemplateNames :
         \/ get_template(name)
         \/ call_template_to_vm_spec(name)
         \/ create_dev_environment(name)
         \/ \E startup_commands \in CommandLists, ports_ok \in BOOLEAN :
              create_custom_template(name, DevTemplate(startup_commands, ports_ok))

SpecTemplates == InitTemplates /\ [][NextTemplates]_vars

\* Workspaces on the built-in templates: custom commands as create_from_devcontainer
\* stores them
NextWorkspace ==
    \/ list_templates
    \/ \E name \in TemplateNames :
         \/ get_template(name)
         \/ \E post_create, post_start \in Commands \cup {<<>>} :
              create_workspace_vm(name, extract_commands(post_create, post_start))

SpecWorkspace == InitTemplates /\ [][NextWorkspace]_vars

--------------------------------------------------------------------------
\* C21: the stale-session cleanup only deletes a session that, at the moment
\* delete_session takes it out of the map, is not persistent, is Detached, has
\* been attached and was last attached at least 24 hours ago, whatever the
\* other tasks did since the scan.
StaleAtDeletion(session) ==
    /\ ~session.persistent
    /\ session.state = "Detached"
    /\ session.last_attached # Null
    /\ now - session.last_attached >= 24 * 60

C21_StaleOnlyDeleted ==
    [][\A t \in Tasks :
         (/\ tasks[t].op = "cleanup_stale" /\ tasks[t].pc = "stale_next"
          /\ tasks'[t].pc = "delete_cleanup")
         => StaleAtDeletion(sessions[tasks'[t].sid])]_vars

\* C22: a create_session whose VM creation failed writes its session into the
\* map as Error with the error's text, leaves the map alone from then on, and
\* returns the VM error unless its own save failed; when it returns the VM error
\* the file is the map, and if no other command has run the session is in the map
\* and in the file as Error with that text.  A create_session of a spec with
\* memory = 0 calls no backend create and answers InvalidInput.
CreateReturns(t) ==
    /\ tasks[t].op = "create" /\ tasks[t].pc = "create_save2"
    /\ tasks'[t].pc = "idle"

ErrorKept(t) ==
    /\ tasks[t].sid \in DOMAIN sessions'
    /\ sessions'[tasks[t].sid].state = "Error"
    /\ sessions'[tasks[t].sid].message = tasks[t].vmres
    /\ tasks[t].sid \in DOMAIN file'
    /\ file'[tasks[t].sid] = sessions'[tasks[t].sid]

C22_ErrorWritten ==
    [][\A t \in Tasks :
         /\ (/\ tasks[t].op = "create" /\ tasks[t].pc = "create_insert"
             /\ tasks'[t].pc = "create_save2" /\ tasks[t].vmres # "Ok")
            => sessions' = Put(sessions, tasks[t].sid,
                               [tasks[t].snap EXCEPT !.state = "Error",
                                                     !.message = tasks[t].vmres])
         /\ (CreateReturns(t) /\ tasks[t].vmres # "Ok")
            => /\ sessions' = sessions
               /\ lastReturn'.res \in {tasks[t].vmres, "persist_err"}
               /\ lastReturn'.res = tasks[t].vmres
                  => /\ file' = sessions'
                     /\ commands = 1 => ErrorKept(t)]_vars

C22_ZeroMemory ==
    [][\A t \in Tasks :
         (tasks[t].op = "create" /\ tasks[t].snap.spec.memory = 0)
         => /\ (tasks[t].pc = "create_vm" /\ tasks'[t].pc # "create_vm")
               => <<instances, inventory, nextVm>>' = <<instances, inventory, nextVm>>
            /\ CreateReturns(t)
               => lastReturn'.res \in {"InvalidInput", "persist_err"}]_vars

SaveFails == saveFailures' > saveFailures

ReturnsSaveError(t) ==
    /\ tasks[t].pc # "idle"
    /\ \/ /\ tasks'[t].pc = "idle"
          /\ lastReturn' = [op |-> tasks[t].op, sid |-> tasks[t].sid,
                            res |-> "persist_err"]
       \/ /\ tasks[t].op = "cleanup_stale" /\ tasks[t].pc = "delete_save"
          /\ tasks'[t].pc = "stale_next"

C23_SaveFailureKeepsMap ==
    [][phase = "up"
       => /\ SaveFails
             => /\ sessions' = sessions /\ file' = file /\ fileState' = fileState
                /\ \E t \in Tasks : ReturnsSaveError(t)
          /\ (file' # file \/ (~lastSaveOk /\ lastSaveOk'))
             => file' = sessions' /\ sessions' = sessions /\ fileState' = "ok"]_vars

C23_Witness ==
    /\ saveFailures = 1 /\ lastSaveOk /\ file = sessions
    /\ \A t \in Tasks : tasks[t].pc = "idle"
    /\ lastReturn.res = "ok"
    /\ lastReturn.op \in {"delete", "stop", "pause", "detach"}
    /\ \E s \in DOMAIN file :
          s >= 2 /\ s = nextSess - 1 /\ file[s].state = "Creating" /\ s # lastReturn.sid

\* C24: stop(id) and cleanup(id) look the id up in the registry and then, with
\* a backend registered, in the backend's list.  A call goes on to the backend's
\* stop or cleanup only for an id found in one of the two, and the backend's
\* method is then invoked, also for an id found in the list alone; for an id in
\* neither, the call returns 'VM <id> not found' at once, having invoked no
\* backend stop or cleanup, emitted no event and left the registry as it was.
\* With no backend registered an id that is not in the registry gives
\* BackendUnavailable instead.
StopOrCleanup == {"stop", "cleanup"}

\* the call begun by this step has returned in it
ReturnsAtOnce ==
    /\ vmOps' # vmOps /\ vmTasks' = vmTasks
    /\ vmReturn'.op \in StopOrCleanup

\* the call has done nothing but look
NothingDone ==
    /\ ~vmReturn'.acted /\ ~vmReturn'.inserted /\ vmReturn'.emits = 0
    /\ instances' = instances /\ inventory' = inventory /\ emitted' = emitted

GoesToBackend(t) ==
    /\ vmOps' # vmOps /\ vmTasks[t].pc = "idle"
    /\ vmTasks'[t].pc \in {"stop_backend", "cleanup_backend"}

BackendInvoked(t) ==
    /\ vmTasks[t].pc \in {"stop_backend", "cleanup_backend"}
    /\ vmTasks'[t] # vmTasks[t]
    => IF vmTasks'[t].pc = "idle"
       THEN vmReturn'.acted /\ vmReturn'.id = vmTasks[t].id
       ELSE vmTasks'[t].acted /\ vmTasks'[t].id = vmTasks[t].id

C25_CapsRespected ==
    /\ (vmReturn.op = "create" /\ vmReturn.res = "Ok")
       => vmReturn.spec.memory <= GlobalResourceLimits.max_memory_per_vm
    /\ Cardinality(DOMAIN instances) <= GlobalResourceLimits.max_concurrent_vms

\* C26: start_daemon_if_needed, once called, returns.  It returns Ok without
\* spawning when the first Ping succeeds; otherwise it spawns at most once and,
\* after a spawn, sleeps 500 ms before each of at most 10 further Pings, returns
\* Ok at the first that succeeds and the timeout error when the tenth has failed.
\* When the socket path cannot be determined it returns that error before any
\* Ping, and when the spawn fails it returns that error in place of the loop.
ClientCounts ==
    /\ client.spawns <= 1
    /\ client.pings <= 1 + MaxPings
    /\ client.spawns = 0 => client.pings <= 1 /\ client.slept = 0
    /\ client.pc = "ping" => client.slept = SleepMs * client.pings
    /\ client.pc = "sleep" => client.slept = SleepMs * (client.pings - 1)
    /\ client.pc = "done"
       => CASE client.res = "Ok" ->
                 \/ client.spawns = 0 /\ client.pings = 1
                 \/ /\ client.spawns = 1 /\ client.pings >= 2
                    /\ client.slept = SleepMs * (client.pings - 1)
            [] client.res = "timeout" ->
                 /\ client.spawns = 1 /\ client.pings = 1 + MaxPings
                 /\ client.slept = SleepMs * MaxPings
            [] client.res = "env_err" -> client.spawns = 0 /\ client.pings = 0
            [] client.res = "spawn_err" -> client.spawns = 0 /\ client.pings = 1
            [] OTHER -> FALSE

PingDecides ==
    (client'.pings = client.pings + 1)
    => IF is_running THEN client'.pc = "done" /\ client'.res = "Ok"
       ELSE IF client.pings = 0 THEN client'.pc = "spawn"
       ELSE IF client.pings = MaxPings
       THEN client'.pc = "done" /\ client'.res = "timeout"
       ELSE client'.pc = "sleep"

C26_StartTerminates ==
    /\ []ClientCounts
    /\ [][PingDecides]_vars
    /\ (client.pc # "none") ~> (client.pc = "done")

\* C26 as stated: every return is Ok after a first successful Ping, or follows
\* exactly one spawn and is Ok or the timeout error
C26_OkOrTimeout ==
    client.pc = "done"
    => \/ client.res = "Ok" /\ client.spawns = 0 /\ client.pings = 1
       \/ client.res \in {"Ok", "timeout"} /\ client.spawns = 1

C26_Witness ==
    /\ client.pc = "done" /\ client.res = "timeout"
    /\ client.pings = 1 + MaxPings /\ client.slept = SleepMs * MaxPings
    /\ daemons[2] = "exited"

\* C27: a daemon that serves and owns the socket file keeps the file for as long
\* as it serves, whatever other daemon is started; at most one daemon process
\* serves, and at most one holds a SessionManager that writes the sessions file;
\* a daemon that exits removes the socket file only if it is its own.
Serving == {d \in DaemonIds : daemons[d] = "serving"}
\* SessionManager::new saves the file, and so do the commands and the cleanup task
FileWriters == {d \in DaemonIds : daemons[d] \in {"manager", "serving"}}

KeepsSocket(d) ==
    (daemons[d] = "serving" /\ sockPath = d /\ daemons'[d] = "serving")
    => sockPath' = d

UnlinksOwn(d) ==
    (daemons[d] = "cleanup" /\ daemons'[d] = "exited" /\ sockPath' # sockPath)
    => sockPath = d

C27_StartIdempotent ==
    /\ [](Cardinality(Serving) <= 1 /\ Cardinality(FileWriters) <= 1)
    /\ [][\A d \in DaemonIds : KeepsSocket(d) /\ UnlinksOwn(d)]_vars


--------------------------------------------------------------------------
\* a startup command of the template holds one of the characters
\* & | ; backtick $ ( ) < > newline carriage-return
HasForbidden(template) ==
    \E i \in DOMAIN template.startup_commands :
      \E j \in DOMAIN template.startup_commands[i] :
        template.startup_commands[i][j] \in Forbidden

\* a step that is a call of template_to_vm_spec, directly or from
\* create_dev_environment, on a template of the catalog
ConvertsTemplate ==
    /\ tplOps' # tplOps
    /\ tplReturn'.op \in {"template_to_vm_spec", "create_dev_environment"}
    /\ tplReturn'.name \in DOMAIN templates

\* C28: template_to_vm_spec on a template with a startup command that holds one
\* of the characters & | ; backtick $ ( ) < > newline carriage-return returns
\* InvalidInput with field startup_commands, no spec is produced and
\* create_dev_environment creates no VM; and every spec it returns was built
\* only from the template's startup commands, none of which holds such a
\* character.
C28_GuardRejects ==
    [][ConvertsTemplate =>
         LET template == templates[tplReturn'.name]
         IN /\ HasForbidden(template) =>
                 /\ tplReturn'.res = "InvalidInput"
                 /\ tplReturn'.field = "startup_commands"
                 /\ tplReturn'.command = <<>>
                 /\ UNCHANGED vmVars
            /\ tplReturn'.command # <<>> =>
                 /\ ~HasForbidden(template)
                 /\ tplReturn'.command =
                      template_command("/workspace", join(template.startup_commands))]_vars

\* create_dev_environment was refused for a custom template with a forbidden
\* character, and for the built-in python template (apt-get update && ...),
\* and no VM exists
C28_Witness ==
    /\ tplReturn.op = "create_dev_environment"
    /\ tplReturn.name = "custom"
    /\ "custom" \in DOMAIN templates
    /\ HasForbidden(templates["custom"])
    /\ ~HasForbidden(DevTemplate(<<templates["custom"].startup_commands[1]>>, TRUE))
    /\ tplReturn.res = "InvalidInput"
    /\ tplReturn.field = "startup_commands"
    /\ nextVm = 2


--------------------------------------------------------------------------
\* a step that is a call of create_workspace_vm, and so of
\* workspace_to_vm_spec, on a template of the catalog
ConvertsWorkspace ==
    /\ tplOps' # tplOps
    /\ tplReturn'.op = "create_workspace_vm"
    /\ tplReturn'.name \in DOMAIN templates

\* the custom command lists without a forbidden character
CleanCustomCommands ==
    {custom_commands \in UNION {[1..n -> Commands] : n \in 0..2} :
       ~HasForbidden(DevTemplate(custom_commands, TRUE))}

\* C29: workspace_to_vm_spec fails with InvalidInput, field startup_commands,
\* when a startup command of the base template or a custom command of the
\* workspace (postCreateCommand and postStartCommand included) holds one of the
\* forbidden characters, so every spec it returns was built from commands of
\* the template and of the workspace that hold none.
C29_WorkspaceGuard ==
    [][ConvertsWorkspace =>
         LET template == templates[tplReturn'.name]
         IN /\ HasForbidden(template) =>
                 /\ tplReturn'.res = "InvalidInput"
                 /\ tplReturn'.field = "startup_commands"
                 /\ tplReturn'.command = <<>>
            /\ tplReturn'.command # <<>> =>
                 \E custom_commands \in CleanCustomCommands :
                   tplReturn'.command =
                     workspace_command("/workspace",
                        join(template.startup_commands \o custom_commands))]_vars

\* C29, the workspace's own commands alone: on the go template, whose startup
\* command holds no forbidden character, every spec returned was built from
\* custom commands that hold none.
C29_CustomCommandsGuarded ==
    [][ConvertsWorkspace /\ tplReturn'.name = "go" /\ tplReturn'.command # <<>> =>
         \E custom_commands \in CleanCustomCommands :
           tplReturn'.command =
             workspace_command("/workspace",
                join(templates["go"].startup_commands \o custom_commands))]_vars


--------------------------------------------------------------------------
\* a step that is a call of create_custom_template
CreatesCustomTemplate ==
    /\ tplOps' # tplOps
    /\ tplReturn'.op = "create_custom_template"

\* C30: the catalog changes only through create_custom_template; called with a
\* name already in the catalog, built-in or custom, it returns TemplateExists
\* and leaves the catalog unchanged; called with a new name it adds exactly
\* that entry and changes no other; no step modifies or removes an entry.
C30_CatalogOnlyGrows ==
    [][/\ \A n \in DOMAIN templates :
            n \in DOMAIN templates' /\ templates'[n] = templates[n]
       /\ templates' # templates => CreatesCustomTemplate
       /\ CreatesCustomTemplate =>
            IF tplReturn'.name \in DOMAIN templates
            THEN /\ tplReturn'.res = "TemplateExists"
                 /\ templates' = templates
            ELSE /\ tplReturn'.res = "Ok"
                 /\ DOMAIN templates' = DOMAIN templates \cup {tplReturn'.name}
                 /\ templates'[tplReturn'.name] = tplReturn'.template]_vars

\* a custom template was added, and a second create_custom_template of the same
\* name with another template was refused and left the first in place
C30_Witness ==
    /\ tplReturn.op = "create_custom_template"
    /\ tplReturn.name = "custom"
    /\ tplReturn.res = "TemplateExists"
    /\ "custom" \in DOMAIN templates
    /\ templates["custom"] # tplReturn.template
    /\ \A n \in DOMAIN BuiltinTemplates : templates[n] = BuiltinTemplates[n]


--------------------------------------------------------------------------
(* normalize_image_name (backend.rs) *)

Library == <<"docker.io/library/">>
Latest == <<":", "latest">>

\* the match of normalize_image_name, arm by arm
normalize_image_name(img) ==
    IF img = <<"alpine">> THEN Library \o <<"alpine">> \o Latest
    ELSE IF contains(img, ":")
    THEN IF contains(img, "/") THEN img ELSE Library \o img
    ELSE Library \o img \o Latest

ImageOnly == UNCHANGED <<sessVars, vmVars, apiVars, metVars, dVars, launchVars, tplVars, wsVars>>

\* KrunvmBackend::create: let image_name = normalize_image_name(&vm.spec.image)
call_normalize_image_name ==
    /\ image_name = <<>>
    /\ image_name' = normalize_image_name(image)
    /\ UNCHANGED image /\ ImageOnly

\* the next VM spec, with another image
next_image ==
    /\ image_name # <<>>
    /\ \E img \in Images : image' = img
    /\ image_name' = <<>>
    /\ ImageOnly

InitImage ==
    /\ image \in Images /\ image_name = <<>>
    /\ LaunchAtRest /\ TemplatesAtRest /\ WorkspacesAtRest
    /\ SessionAtRest /\ VmAtRest /\ ApiAtRest /\ MetricsAtRest /\ DaemonAtRest

NextImage == call_normalize_image_name \/ next_image

SpecImage == InitImage /\ [][NextImage]_vars

\* C31: a bare name N becomes docker.io/library/N:latest; a string with a tag
\* and no slash becomes docker.io/library/N:T; every string that contains a
\* slash, with or without a tag, is returned unchanged.
C31_Normalization ==
    image_name # <<>> =>
      IF contains(image, "/") THEN image_name = image
      ELSE IF contains(image, ":") THEN image_name = Library \o image
      ELSE image_name = Library \o image \o Latest

\* the part of C31 on strings with a tag
C31_Tagged ==
    image_name # <<>> /\ contains(image, ":") =>
      IF contains(image, "/") THEN image_name = image
      ELSE image_name = Library \o image


--------------------------------------------------------------------------
(* WorkspaceManager (workspace.rs). The manager holds only workspaces_dir; *)
(* every method takes &self and works on the file system.                  *)

WsOnly == UNCHANGED <<sessVars, vmVars, apiVars, metVars, dVars, launchVars, tplVars, imgVars>>

WsAt(t, pc) == wsTasks[t].pc = pc

WsBegin(t) ==
    /\ WsAt(t, "idle")
    /\ wsOps < MaxWsOps
    /\ wsOps' = wsOps + 1

WsGoto(t, pc) == wsTasks' = [wsTasks EXCEPT ![t].pc = pc]

WsReturn(t, res, config, listed) ==
    /\ wsReturn' = [op |-> wsTasks[t].op, id |-> wsTasks[t].id, res |-> res,
                    config |-> config, list |-> listed]
    /\ wsTasks' = [wsTasks EXCEPT ![t] = IdleWsTask]

\* the clock moves
ws_tick ==
    /\ wsNow < MaxWsNow
    /\ wsNow' = wsNow + 1
    /\ UNCHANGED <<wsDir, wsFile, wsCreated, wsTasks, wsReturn, nextWs, wsOps>> /\ WsOnly

\* create_workspace: Uuid::new_v4, fs::create_dir_all(workspace_dir), the config
create_workspace(t, name, template, source) ==
    /\ WsBegin(t)
    /\ nextWs <= MaxWorkspaces
    /\ nextWs' = nextWs + 1
    /\ wsDir' = [wsDir EXCEPT ![nextWs] = TRUE]
    /\ wsCreated' = [wsCreated EXCEPT ![nextWs] = VortexWorkspaceConfig(name, template, wsNow)]
    /\ wsTasks' = [wsTasks EXCEPT ![t] =
                     [pc |-> "save_create", op |-> "create", id |-> nextWs,
                      config |-> VortexWorkspaceConfig(name, template, wsNow),
                      source |-> source]]
    /\ UNCHANGED <<wsFile, wsReturn, wsNow>> /\ WsOnly

\* save_workspace_config, fs::write first half: File::create opens the file and
\* truncates it; it fails when the directory is gone
save_workspace_config_create(t) ==
    /\ WsAt(t, "save_create")
    /\ LET id == wsTasks[t].id
       IN IF wsDir[id]
          THEN /\ wsFile' = [wsFile EXCEPT ![id] = WsFile("empty", NoConfig)]
               /\ WsGoto(t, "save_write")
               /\ UNCHANGED wsReturn
          ELSE /\ WsReturn(t, "Io", NoConfig, {})
               /\ UNCHANGED wsFile
    /\ UNCHANGED <<wsDir, wsCreated, wsNow, nextWs, wsOps>> /\ WsOnly

\* save_workspace_config, fs::write second half: write_all on the open file; when
\* the directory was removed meanwhile the bytes go to the unlinked file
save_workspace_config_write(t) ==
    /\ WsAt(t, "save_write")
    /\ LET id == wsTasks[t].id
       IN /\ wsFile' = IF wsDir[id]
                       THEN [wsFile EXCEPT ![id] = WsFile("config", wsTasks[t].config)]
                       ELSE wsFile
          /\ IF wsTasks[t].op = "create" /\ wsTasks[t].source # "none"
             THEN WsGoto(t, "copy") /\ UNCHANGED wsReturn
             ELSE WsReturn(t, "Ok", wsTasks[t].config, {})
    /\ UNCHANGED <<wsDir, wsCreated, wsNow, nextWs, wsOps>> /\ WsOnly

\* create_workspace: copy_dir_all(source, &workspace_dir) copies every entry of
\* the source directory over the workspace directory, then Ok(Workspace{config})
copy_dir_all(t) ==
    /\ WsAt(t, "copy")
    /\ LET id == wsTasks[t].id
       IN IF ~wsDir[id]
          THEN \* fs::create_dir_all(dst) makes the directory again
               /\ wsDir' = [wsDir EXCEPT ![id] = TRUE]
               /\ wsFile' = [wsFile EXCEPT ![id] =
                               IF wsTasks[t].source = "with_config"
                               THEN WsFile("config", SourceConfig) ELSE NoFile]
          ELSE /\ wsFile' = IF wsTasks[t].source = "with_config"
                            THEN [wsFile EXCEPT ![id] = WsFile("config", SourceConfig)]
                            ELSE wsFile
               /\ UNCHANGED wsDir
    /\ WsReturn(t, "Ok", wsTasks[t].config, {})
    /\ UNCHANGED <<wsCreated, wsNow, nextWs, wsOps>> /\ WsOnly

\* get_workspace and touch_workspace begin alike: workspace_dir.exists()
WsExists(t, op, id) ==
    IF wsDir[id]
    THEN /\ wsTasks' = [wsTasks EXCEPT ![t] =
                          [IdleWsTask EXCEPT !.pc = "load", !.op = op, !.id = id]]
         /\ UNCHANGED wsReturn
    ELSE \* get_workspace: Ok(None); touch_workspace: Ok(())
         /\ wsReturn' = [NoWsReturn EXCEPT !.op = op, !.id = id,
                                           !.res = IF op = "get" THEN "None" ELSE "Ok"]
         /\ UNCHANGED wsTasks

get_workspace(t, id) ==
    /\ WsBegin(t)
    /\ WsExists(t, "get", id)
    /\ UNCHANGED <<wsDir, wsFile, wsCreated, wsNow, nextWs>> /\ WsOnly

touch_workspace(t, id) ==
    /\ WsBegin(t)
    /\ WsExists(t, "touch", id)
    /\ UNCHANGED <<wsDir, wsFile, wsCreated, wsNow, nextWs>> /\ WsOnly

\* load_workspace_config: read_to_string and serde_json::from_str; for touch the
\* copy then gets last_used = Utc::now()
load_workspace_config(t) ==
    /\ WsAt(t, "load")
    /\ LET id == wsTasks[t].id
           f == wsFile[id]
       IN IF ~wsDir[id] \/ f.kind = "missing"
          THEN WsReturn(t, "Io", NoConfig, {})
          ELSE IF f.kind = "empty"
          THEN WsReturn(t, "Json", NoConfig, {})
          ELSE IF wsTasks[t].op = "get"
          THEN WsReturn(t, "Some", f.config, {})
          ELSE /\ wsTasks' = [wsTasks EXCEPT ![t].pc = "save_create",
                                             ![t].config = [f.config EXCEPT !.last_used = wsNow]]
               /\ UNCHANGED wsReturn
    /\ UNCHANGED <<wsDir, wsFile, wsCreated, wsNow, nextWs, wsOps>> /\ WsOnly

\* delete_workspace: if workspace_dir.exists() { fs::remove_dir_all }
delete_workspace(t, id) ==
    /\ WsBegin(t)
    /\ wsDir' = [wsDir EXCEPT ![id] = FALSE]
    /\ wsFile' = [wsFile EXCEPT ![id] = NoFile]
    /\ wsCreated' = [wsCreated EXCEPT ![id] = NoConfig]
    /\ wsReturn' = [NoWsReturn EXCEPT !.op = "delete", !.id = id, !.res = "Ok"]
    /\ UNCHANGED <<wsTasks, wsNow, nextWs>> /\ WsOnly

\* what list_workspaces collects: get_workspace of every directory entry
Listed == {[id |-> id, config |-> wsFile[id].config] : id \in {i \in WsIds : wsDir[i]}}

\* some get_workspace of the listing fails
ListFails == \E id \in WsIds : wsDir[id] /\ wsFile[id].kind # "config"

\* list_workspaces: the entries, sorted by last_used, most recent first (the
\* result is kept as the set; claims read its members)
list_workspaces(t) ==
    /\ WsBegin(t)
    /\ wsReturn' = IF ListFails
                   THEN [NoWsReturn EXCEPT !.op = "list", !.res = "Io"]
                   ELSE [NoWsReturn EXCEPT !.op = "list", !.res = "Ok", !.list = Listed]
    /\ UNCHANGED <<wsDir, wsFile, wsCreated, wsTasks, wsNow, nextWs>> /\ WsOnly

\* find_workspace_by_name: the first entry of list_workspaces with that name
find_workspace_by_name(t, name) ==
    /\ WsBegin(t)
    /\ IF ListFails
       THEN wsReturn' = [NoWsReturn EXCEPT !.op = "find", !.res = "Io"]
       ELSE LET named == {w \in Listed : w.config.name = name}
            IN IF named = {}
               THEN wsReturn' = [NoWsReturn EXCEPT !.op = "find", !.res = "None"]
               ELSE \E w \in named :
                      /\ \A v \in named : v.config.last_used <= w.config.last_used
                      /\ wsReturn' = [NoWsReturn EXCEPT !.op = "find", !.res = "Some",
                                                        !.id = w.id, !.config = w.config]
    /\ UNCHANGED <<wsDir, wsFile, wsCreated, wsTasks, wsNow, nextWs>> /\ WsOnly

WsCall(t) ==
    \/ \E name \in WsNames, template \in WsTemplates, source \in Sources :
         create_workspace(t, name, template, source)
    \/ \E id \in WsIds :
         \/ get_workspace(t, id)
         \/ touch_workspace(t, id)
         \/ delete_workspace(t, id)
    \/ list_workspaces(t)
    \/ \E name \in WsNames : find_workspace_by_name(t, name)

WsStep(t) ==
    \/ save_workspace_config_create(t)
    \/ save_workspace_config_write(t)
    \/ copy_dir_all(t)
    \/ load_workspace_config(t)

InitWorkspaces ==
    /\ WorkspacesAtRest
    /\ LaunchAtRest /\ TemplatesAtRest /\ ImageAtRest
    /\ SessionAtRest /\ VmAtRest /\ ApiAtRest /\ MetricsAtRest /\ DaemonAtRest

\* callers in several tasks or processes
NextWorkspaces == ws_tick \/ \E t \in WsTasks : WsCall(t) \/ WsStep(t)

SpecWorkspaces == InitWorkspaces /\ [][NextWorkspaces]_vars

\* one caller, one call after the other
NextWorkspaceCalls == ws_tick \/ WsCall(1) \/ WsStep(1)

SpecWorkspaceCalls == InitWorkspaces /\ [][NextWorkspaceCalls]_vars


--------------------------------------------------------------------------
\* task t has a workspace's .vortex.json open for writing
Writing(t) == wsTasks[t].pc = "save_write"

\* C32: no two writers write the same workspace's config file concurrently:
\* the writes of one workspace id are serialized by the Workspace Manager.
C32_OneWriter ==
    \A t, u \in WsTasks :
      t # u /\ Writing(t) /\ Writing(u) => wsTasks[t].id # wsTasks[u].id

\* what serialized writes would give every reader of an existing workspace: a
\* whole config, never the file between its truncation and its write
C32_ReadersSeeConfig ==
    wsReturn.res = "Json" => wsReturn.op = "none"

\* the last part of C32: a touch whose workspace was deleted after its read
\* leaves no file and no directory of that workspace behind
C32_TouchAfterDelete ==
    [][\A t \in WsTasks :
         wsTasks[t].op = "touch" /\ ~wsDir[wsTasks[t].id]
           => ~wsDir'[wsTasks[t].id] /\ wsFile'[wsTasks[t].id] = NoFile]_vars


--------------------------------------------------------------------------
\* the workspaces created and not deleted since
Live == {id \in WsIds : wsCreated[id] # NoConfig}

\* a listed or returned workspace shows what it was created with
AsCreated(id, config) ==
    /\ id \in Live
    /\ config.name = wsCreated[id].name
    /\ config.template = wsCreated[id].template
    /\ config.preferred_workdir = "/workspace"

\* what C33 says of the call that returns in this step
ListingExact ==
    /\ wsReturn'.op = "list" =>
         /\ wsReturn'.res = "Ok"
         /\ {w.id : w \in wsReturn'.list} = Live
         /\ \A w \in wsReturn'.list : AsCreated(w.id, w.config)
    /\ wsReturn'.op = "get" =>
         IF wsReturn'.id \in Live
         THEN wsReturn'.res = "Some" /\ AsCreated(wsReturn'.id, wsReturn'.config)
         ELSE wsReturn'.res = "None"
    /\ wsReturn'.op = "find" =>
         \/ wsReturn'.res = "Some" /\ AsCreated(wsReturn'.id, wsReturn'.config)
         \/ wsReturn'.res = "None"

\* C33: after any sequence of create_workspace, touch_workspace and
\* delete_workspace calls, list_workspaces returns exactly the workspaces created
\* and not yet deleted, each with the name, template and preferred workdir it
\* was created with; get_workspace and find_workspace_by_name return nothing for
\* a deleted workspace.
C33_ListExact ==
    [][wsReturn' # wsReturn => ListingExact]_vars

\* the same for workspaces whose source directory held no .vortex.json
C33_PlainSources ==
    [][wsReturn' # wsReturn /\ (\A id \in WsIds : wsFile[id].config.name # "old")
         => ListingExact]_vars


--------------------------------------------------------------------------
\* the events of a kind emitted for a VM
EventsOf(kind, id) == {i \in 1..Len(emitted) : emitted[i] = VmEvent(kind, id)}

\* this step is the return of a create that went through the Err arm of the
\* match on backend.create: the arm with one emit_event
FailedCreateReturns ==
    /\ vmReturn' # vmReturn
    /\ vmReturn'.op = "create"
    /\ vmReturn'.called
    /\ vmReturn'.emits = 1

\* the Err arm stores the record as Error, emits one Error event and nothing
\* else for the id, and returns the backend's error
ErrArm ==
    /\ \A t \in VmTasks :
         AtVm(t, "create_err") /\ vmTasks'[t] # vmTasks[t]
           => /\ vmTasks[t].id \in DOMAIN instances'
              /\ instances'[vmTasks[t].id] = "Error"
    /\ FailedCreateReturns =>
         /\ vmReturn'.res = "BackendError"
         /\ Cardinality(EventsOf("Error", vmReturn'.id)) = 1
         /\ EventsOf("Created", vmReturn'.id) = {}
         /\ EventsOf("Started", vmReturn'.id) = {}

\* a caller other than t takes this step inside a stop or a cleanup of the VM
OtherCallOn(t, id) ==
    \E u \in VmTasks \ {t} :
      /\ vmTasks'[u] # vmTasks[u]
      /\ \/ vmTasks[u].op \in {"stop", "cleanup"} /\ vmTasks[u].id = id
         \/ vmTasks'[u].op \in {"stop", "cleanup"} /\ vmTasks'[u].id = id
         \/ vmReturn' # vmReturn /\ vmReturn'.op \in {"stop", "cleanup"}
              /\ vmReturn'.id = id

\* from the Err arm to the return of the create, the Error record is removed or
\* replaced by no step of the create, only by a stop or cleanup of that id that
\* another caller issues
KeptByCreate ==
    \A t \in VmTasks :
      (/\ vmTasks[t].op = "create" /\ vmTasks[t].res = "BackendError"
       /\ vmTasks[t].id \in DOMAIN instances
       /\ instances[vmTasks[t].id] = "Error"
       /\ ~(vmTasks[t].id \in DOMAIN instances' /\ instances'[vmTasks[t].id] = "Error"))
      => OtherCallOn(t, vmTasks[t].id)

\* C34: for every create(spec) that passes validation and whose backend create
\* fails, the Err arm stores the record of the allocated id in state Error and
\* the create leaves it there (a stop or cleanup of that id by another caller
\* acts on it as at any later time); get and list show it when the create
\* returns; exactly one Error event and no Created or Started event is emitted
\* for that id; the backend's error is returned.
C34_FailedCreateKept ==
    [][/\ ErrArm
       /\ KeptByCreate
       /\ (FailedCreateReturns /\ vmOps = 1) =>
            /\ vmReturn'.id \in vm_list_ids
            /\ instances[vmReturn'.id] = "Error"]_vars

\* a failed create has returned with its Error record in the registry and its
\* Error event handed to a handler
C34_Witness ==
    /\ vmReturn.op = "create"
    /\ vmReturn.res = "BackendError"
    /\ vmReturn.id \in DOMAIN instances
    /\ instances[vmReturn.id] = "Error"
    /\ vmReturn.id \notin inventory
    /\ Len(event_handlers) > 0
    /\ \E i \in 1..Len(delivered[1]) : EventAt(1, i) = VmEvent("Error", vmReturn.id)


--------------------------------------------------------------------------
\* this step is a call of list
Lists == vmReturn' # vmReturn /\ vmReturn'.op = "list"

\* the skeletal instances: one Running instance per vortex- name of the backend
Skeletal == [id \in {i \in inventory : VmName(i)[1] = "vortex-"} |-> "Running"]

--------------------------------------------------------------------------
\* the most recent return is the success of delete_session(s)
DeleteReturned(s) ==
    lastReturn.op = "delete" /\ lastReturn.sid = s /\ lastReturn.res = "ok"

\* C36: once delete_session(id) has returned success, no session with that id
\* is present in the session map or in the sessions file, at the return and
\* after every later step of the calls that were in flight when it ran.
C36_DeletedStaysDeleted ==
    /\ [](\A s \in SessIds :
            DeleteReturned(s) => s \notin DOMAIN sessions /\ s \notin DOMAIN file)
    /\ [][\A s \in SessIds :
            DeleteReturned(s) =>
              s \notin DOMAIN sessions' /\ s \notin DOMAIN file']_vars


--------------------------------------------------------------------------
\* an attach_session call for session s is in progress
AttachInProgress(s) == \E t \in Tasks : tasks[t].op = "attach" /\ tasks[t].sid = s

\* C37: a session is in state Attached only while an attach_session call for it
\* is in progress: whenever attach_session returns, with success or with an
\* error of the lifecycle manager's attach, the session is no longer Attached.
C37_AttachedOnlyWhileAttaching ==
    \A s \in DOMAIN sessions :
      sessions[s].state = "Attached" => AttachInProgress(s)


\* C37, at the return: when attach_session returns with success or with an
\* error of the lifecycle manager's attach (VM not found, a non-zero exit of the
\* interactive child), the session is not Attached, unless another
\* attach_session call for it is in progress.
C37_ReturnEndsAttached ==
    (/\ lastReturn.op = "attach"
     /\ lastReturn.res \in {"ok", "VmNotFound", "BackendError"}
     /\ lastReturn.sid \in DOMAIN sessions)
    => (sessions[lastReturn.sid].state = "Attached" => AttachInProgress(lastReturn.sid))


--------------------------------------------------------------------------
\* a VM the VmManager holds as Running that no session refers to
Unreferred(v) ==
    /\ v \in DOMAIN instances
    /\ instances[v] = "Running"
    /\ \A s \in DOMAIN sessions : sessions[s].vm_id # v

\* C38: for any interleaving of two start_session or restart_session calls on
\* one Stopped or Error session, and of a start with a pause, resume, stop or
\* detach, once all calls have returned the session refers to the VM created
\* last and no created VM is left running without a session referring to it.
C38_NoVmLeftBehind ==
    (/\ Quiescent
     /\ lastReturn.op \in StartOps \cup {"pause", "resume", "stop", "detach"}
     /\ lastReturn.res = "ok"
     /\ lastReturn.sid \in DOMAIN sessions)
    => \A v \in VmIds : ~Unreferred(v)


--------------------------------------------------------------------------
(* C39: what startup reconciliation leaves alone *)

\* the fields of a session other than its state (the message is the payload of
\* SessionState::Error)
SameButState(a, b) ==
    /\ a.vm_id = b.vm_id
    /\ a.spec = b.spec
    /\ a.persistent = b.persistent
    /\ a.last_attached = b.last_attached

\* C39: when SessionManager::new returns Ok, the map holds exactly the sessions
\* that were loaded, each under its id and with its vm_id, spec, persistent flag
\* and last_attached unchanged; a session loaded as Creating, Detached or Paused
\* has the state it was loaded with, whether or not its vm_id is in the backend
\* inventory, so only sessions loaded as Running, Attached, Stopped or Error can
\* have a different state.
C39_ReconcileTouchesStateOnly ==
    [][(phase = "boot" /\ phase' = "up") =>
         /\ DOMAIN sessions' = DOMAIN load_sessions
         /\ \A s \in DOMAIN load_sessions :
              /\ SameButState(sessions'[s], load_sessions[s])
              /\ load_sessions[s].state \in {"Creating", "Detached", "Paused"}
                    => /\ sessions'[s].state = load_sessions[s].state
                       /\ sessions'[s].message = load_sessions[s].message
              /\ sessions'[s].state # load_sessions[s].state
                    => load_sessions[s].state \in {"Running", "Attached", "Stopped", "Error"}]_vars

\* the manager is up with a session loaded as Detached or Paused whose VM is not
\* in the backend inventory, still in that state and last attached when it was
C39_Witness ==
    /\ phase = "up"
    /\ commands = 0
    /\ 1 \in DOMAIN sessions
    /\ sessions[1].state \in {"Detached", "Paused"}
    /\ sessions[1].vm_id = 1
    /\ sessions[1].vm_id \notin inventory
    /\ instances = EmptyMap
    /\ file = sessions


--------------------------------------------------------------------------
(* C40: the built-in templates and template_to_vm_spec *)

\* a step that is a call of template_to_vm_spec on a template of
\* load_builtin_templates, as it was loaded
ConvertsBuiltin ==
    /\ tplOps' # tplOps
    /\ tplReturn'.op = "template_to_vm_spec"
    /\ tplReturn'.name \in DOMAIN BuiltinTemplates
    /\ templates[tplReturn'.name] = BuiltinTemplates[tplReturn'.name]

\* C40: template_to_vm_spec on a template of the built-in catalog returns Ok
\* with a spec that carries a startup command built from the template's
\* commands, never an InvalidInput error.
C40_BuiltinsConvert ==
    [][ConvertsBuiltin =>
         /\ tplReturn'.res = "Ok"
         /\ tplReturn'.command =
              template_command("/workspace",
                               join(BuiltinTemplates[tplReturn'.name].startup_commands))]_vars

====
